---- MODULE Spec2Model ----
(***************************************************************************)
(* Verification model of the tvm-explore tutorial notebooks.               *)
(*                                                                         *)
(* Each notebook is modelled by its own specification over its own group   *)
(* of variables; the other groups are held at their idle values.           *)
(*   SpecSched       : get-started notebook, the schedule cells (split,    *)
(*                     bind, build) run in any order by the kernel         *)
(*   SpecKernel      : get-started notebook, the threads of myadd_kernel0  *)
(*   SpecNest        : get-started notebook, default loop and split nest   *)
(*   SpecRowSum      : reduction notebook, the default schedule            *)
(*   SpecRfactor     : reduction notebook, the rfactor schedule            *)
(*   SpecCrossThread : reduction notebook, the cross-thread kernel         *)
(*   SpecMatmul      : tensorcore matmul notebook, matmul_nn               *)
(*   SpecPasses      : relay pass notebook, the Sequential cells           *)
(*   SpecDirect      : relay pass notebook, passes invoked on the module   *)
(*   SpecDebug       : relay pass notebook, the PrintIR pipeline           *)
(*   SpecCustom      : relay pass notebook, the CustomPipeline pass        *)
(*   SpecIntrin      : intrinsics notebook, the lowering rules             *)
(*   SpecHost        : get-started notebook, the host wrapper of fadd      *)
(*   SpecAlign       : tensorcore matmul notebook, storage_align           *)
(*   SpecExtract     : TFLite notebook, extract(path)                      *)
(*   SpecExtern      : extern op notebook, the Python extern stage         *)
(*   SpecSplit       : reduction notebook, the doubly split nest           *)
(* Floating-point values are modelled by integers: sums are exact.         *)
(***************************************************************************)
EXTENDS Integers, Naturals, Sequences, FiniteSets, TLC

VARIABLES
  \* ---- get-started notebook: kernel namespace and schedule s[C] ----
  leaf,      \* leaf_iter_vars of stage C of the current schedule s
  rel,       \* split relations recorded in stage C
  nextId,    \* allocator of IterVar objects
  bx, tx,    \* the notebook's names bx, tx (None until a split succeeded)
  binds,     \* thread bindings of stage C: set of <<itervar, thread tag>>
  fadd,      \* the module built by tvm.build (None until built)
  scheds,    \* how many schedules tvm.create_schedule has made
  log,       \* executed cells and their outcome, oldest first
  \* ---- the inputs of a run ----
  n, m,      \* the shape variables n and m
  seed,      \* selects the contents of the input arrays
  \* ---- get-started notebook: vector add, fadd(a, b, c) ----
  C,         \* the output array c
  wr,        \* wr[i]: how many times C[i] has been stored to
  oob,       \* indices outside [0, n) that were loaded from or stored to
  lo, hi,    \* GPU threads lo .. hi-1 of the grid have not run yet
  bxi, txi,  \* loop counters bx, tx of the split loop nest
  Cd, di,    \* output array and loop counter i of the default schedule's loop
  \* ---- reduction notebook: B = numpy.sum(A, axis=1) ----
  B,         \* the output array B, one element per row of A
  B_rf,      \* the temporary B.rf of rfactor, flat, 16 * n elements
  zi,        \* zi[i]: how many times B[i] = 0 has been executed
  acc,       \* acc[x]: how many times A[x] (flat index) was added into B
  roob,      \* flat indices outside an array that were loaded or stored
  pc,        \* the statement the lowered program is at
  ri, rk,    \* loop counters i (or ax0) and k (or k.inner.v)
  ko, ki,    \* loop counters k.outer and k.inner
  \* ---- reduction notebook: the cross-thread reduction kernel ----
  red_buf0,  \* __shared__ float red_buf0[512] of the running block
  blk,       \* blockIdx.x of the running block
  warp,      \* the next warp of the block to run the current section
  diverged,  \* how many warps ran the reduction with diverged lanes
  \* ---- tensorcore matmul notebook ----
  N, M, L,   \* M, N, L = ... (the globals that tune_and_evaluate is called with)
  dtype,     \* 'float16' or 'int8'
  layout,    \* 'NN', 'NT', 'TN' or 'TT'
  c_tvm,     \* the result array, np.zeros(c_np.shape) before func runs
  mi, mj,    \* the element (i, j) of the result that is computed next
  moob,      \* reads and writes that fell outside the shape of their array
  \* ---- relay pass infrastructure notebook: the kernel's namespace ----
  mod,       \* mod = relay.Module.from_expr(f)
  seq,       \* seq = relay.transform.Sequential([...])
  mod1,      \* mod1 = seq(mod)
  mod2,      \* mod2 = seq(mod) under build_config(opt_level=3)
  mod3,      \* mod3 = seq(mod) under build_config(opt_level=3, disabled_pass=[...])
  modc,      \* seq(mod) under another build_config(opt_level=..., disabled_pass=...)
  \* ---- relay pass infrastructure notebook: the debugging cell ----
  stdout,    \* what the cell has printed, oldest first
  step,      \* the pass of seq that Sequential runs next (0: not running)
  cur,       \* the module Sequential is working on, with its context
  \* ---- relay pass infrastructure notebook: the custom pass ----
  cmod,      \* the functions of the module given to custom_pass
  cout,      \* the functions of the module that custom_pass is building
  cvi,       \* the node of the current function that ReplaceConstant visits next
  cmul,      \* the value of the constant obj.multiplier
  \* ---- intrinsics notebook ----
  irules,    \* the registered lowering rules, by <<target, intrinsic>>
  ilog,      \* the builds and registrations of the session, oldest first
  \* ---- get-started notebook: the host side of fadd ----
  hb, hc,    \* the lengths of the arrays b and c given to fadd (a has length n)
  hstatus,   \* "idle" before the call, then "error" or "running"
  \* ---- tensorcore matmul notebook: storage_align ----
  sextent,   \* the elements in a row of the shared buffer that is aligned
  sstride,   \* the row stride of the buffer in elements (0: not yet aligned)
  xlog,      \* the calls of extract so far: path, file opened, directory extracted into, error raised
  xa,        \* the input array a of the extern stage
  xb,        \* the output array b of the extern stage
  xtmp,      \* the temporary array x.asnumpy() + 1
  xpc,       \* where the call f(a, b) is
  woob       \* the indices outside B that the split nest wrote

schedVars == <<leaf, rel, nextId, bx, tx, binds, fadd, scheds, log>>

inVars == <<n, m, seed>>

addVars == <<C, wr, oob, lo, hi, bxi, txi, Cd, di>>

redVars == <<B, B_rf, zi, acc, roob, pc, ri, rk, ko, ki>>

gpuVars == <<red_buf0, blk, warp, diverged>>

mmVars == <<N, M, L, dtype, layout, c_tvm, mi, mj, moob>>

passVars == <<mod, seq, mod1, mod2, mod3, modc>>

dbgVars == <<stdout, step, cur>>

custVars == <<cmod, cout, cvi, cmul>>

intrinVars == <<irules, ilog>>

hostVars == <<hb, hc, hstatus>>

alignVars == <<sextent, sstride>>

extractVars == <<xlog>>

externVars == <<xa, xb, xtmp, xpc>>

splitVars == <<woob>>

vars == <<inVars, schedVars, addVars, redVars, gpuVars, mmVars, passVars, dbgVars, custVars, intrinVars, hostVars, alignVars, extractVars, externVars, splitVars>>

None == [name |-> "None", id |-> 0]

(***************************************************************************)
(* Bounds of the model.                                                    *)
(***************************************************************************)
MaxExec == 5      \* cells executed in one notebook session
MaxSched == 2     \* schedules created in one notebook session
MaxBlocks == 2    \* vector lengths go up to MaxBlocks full blocks (+ MaxDelta)
MaxDelta == 1     \* vector lengths are within MaxDelta of a multiple of Factor
MaxSeed == 1      \* input contents 0 .. MaxSeed
MaxRows == 2      \* matrices of up to MaxRows rows (unsplit row axis)
MaxColBlocks == 1 \* columns go up to MaxColBlocks full blocks (+ MaxDelta)
MaxRowBlocks == 1 \* split rows go up to MaxRowBlocks full blocks (+ MaxDelta)
MaxDiverged == 1  \* warps of a launch whose lanes do not run in lockstep
MaxDim == 3       \* matmul sizes N, M, L go from 1 to MaxDim
MaxOptLevel == 4  \* build_config(opt_level=...) goes from 0 to MaxOptLevel
MaxData == 1      \* the contents of c_data go from 0 to MaxData
MaxFuncs == 2     \* a module holds from 1 to MaxFuncs functions
MaxLen == 2       \* the arrays given to fadd have 0 to MaxLen elements
MaxExtent == 40   \* shared buffer rows of 1 to MaxExtent elements (and the tiles)

(***************************************************************************)
(* Get-started notebook: the schedule cells.                               *)
(***************************************************************************)
\* factor=64 of s[C].split
Factor == 64

\* C.op.axis[0]: the one IterVar object of the compute op, shared by every
\* schedule made from C.op
RootAxis == [name |-> "i", id |-> 1]

InSeq(x, s) == \E p \in 1..Len(s) : s[p] = x

\* leaf_iter_vars with parent replaced by outer, inner, in place
ReplaceLeaf(s, parent, outer, inner) ==
  LET p == CHOOSE q \in 1..Len(s) : s[q] = parent
  IN  SubSeq(s, 1, p - 1) \o <<outer, inner>> \o SubSeq(s, p + 1, Len(s))

Logged(cell, outcome, out) ==
  log' = Append(log, [cell |-> cell, err |-> outcome, out |-> out])

CanRun == Len(log) < MaxExec

\* s = tvm.create_schedule(C.op): a fresh schedule whose stage C has the
\* root axis as only leaf; the names bx, tx and fadd keep their old objects
CreateScheduleCell ==
  /\ CanRun
  /\ scheds < MaxSched
  /\ scheds' = scheds + 1
  /\ leaf' = <<RootAxis>>
  /\ rel' = {}
  /\ binds' = {}
  /\ Logged("create_schedule", "ok", <<>>)
  /\ UNCHANGED <<nextId, bx, tx, fadd>>

\* a split that does not check its parent: the new axes are appended
StageSplitUnchecked(parent, factor) ==
  LET outer == [name |-> parent.name \o ".outer", id |-> nextId]
      inner == [name |-> parent.name \o ".inner", id |-> nextId + 1]
  IN  [err |-> "ok", outer |-> outer, inner |-> inner,
       leaf |-> IF InSeq(parent, leaf)
                THEN ReplaceLeaf(leaf, parent, outer, inner)
                ELSE leaf \o <<outer, inner>>,
       rel |-> rel \cup {[parent |-> parent, outer |-> outer,
                          inner |-> inner, factor |-> factor]}]

\* Stage.split(parent, factor): the error of schedule_lang.cc:30 when parent
\* is no leaf of the stage any more, raised before anything is changed; else
\* parent is replaced in place by the new outer and inner axes
StageSplit(parent, factor) ==
  IF ~InSeq(parent, leaf)
  THEN [err |-> "TVMError: already been splitted", outer |-> None,
        inner |-> None, leaf |-> leaf, rel |-> rel]
  ELSE LET outer == [name |-> parent.name \o ".outer", id |-> nextId]
           inner == [name |-> parent.name \o ".inner", id |-> nextId + 1]
       IN  [err |-> "ok", outer |-> outer, inner |-> inner,
            leaf |-> ReplaceLeaf(leaf, parent, outer, inner),
            rel |-> rel \cup {[parent |-> parent, outer |-> outer,
                               inner |-> inner, factor |-> factor]}]

\* bx, tx = s[C].split(C.op.axis[0], factor=64): the names are assigned only
\* when the call returns
SplitCell ==
  /\ CanRun
  /\ scheds > 0
  /\ LET r == StageSplit(RootAxis, Factor)
     IN  /\ leaf' = r.leaf
         /\ rel' = r.rel
         /\ Logged("split", r.err, <<>>)
         /\ IF r.err = "ok"
            THEN /\ bx' = r.outer
                 /\ tx' = r.inner
                 /\ nextId' = nextId + 2
            ELSE UNCHANGED <<bx, tx, nextId>>
  /\ UNCHANGED <<binds, fadd, scheds>>

\* print (bx,tx)
PrintCell ==
  /\ CanRun
  /\ IF bx = None
     THEN Logged("print", "NameError", <<>>)
     ELSE Logged("print", "ok", <<bx.name, tx.name>>)
  /\ UNCHANGED <<leaf, rel, nextId, bx, tx, binds, fadd, scheds>>

\* Stage.bind(ivar, thread): ivar must be a leaf of the stage
BindFails(ivar) == ~InSeq(ivar, leaf)

\* if tgt == "cuda": s[C].bind(bx, blockIdx.x); s[C].bind(tx, threadIdx.x)
BindCell ==
  /\ CanRun
  /\ scheds > 0
  /\ IF bx = None
     THEN /\ Logged("bind", "NameError", <<>>)
          /\ UNCHANGED binds
     ELSE IF BindFails(bx)
     THEN /\ Logged("bind", "TVMError: not a leaf", <<>>)
          /\ UNCHANGED binds
     ELSE IF BindFails(tx)
     THEN /\ Logged("bind", "TVMError: not a leaf", <<>>)
          /\ binds' = {b \in binds : b[1] # bx} \cup {<<bx, "blockIdx.x">>}
     ELSE /\ Logged("bind", "ok", <<>>)
          /\ binds' = {b \in binds : b[1] \notin {bx, tx}}
                        \cup {<<bx, "blockIdx.x">>, <<tx, "threadIdx.x">>}
  /\ UNCHANGED <<leaf, rel, nextId, bx, tx, fadd, scheds>>

\* every leaf of stage C is bound to a GPU thread axis
AllBound == \A p \in 1..Len(leaf) : \E b \in binds : b[1] = leaf[p]

\* fadd = tvm.build(s, [A, B, C], tgt, target_host=tgt_host, name="myadd"):
\* for the cuda target the loops of C must be bound to the compute grid
BuildCell ==
  /\ CanRun
  /\ scheds > 0
  /\ IF AllBound
     THEN /\ fadd' = [name |-> "myadd", axes |-> leaf, binds |-> binds]
          /\ Logged("build", "ok", <<>>)
     ELSE /\ Logged("build", "TVMError: not bound", <<>>)
          /\ UNCHANGED fadd
  /\ UNCHANGED <<leaf, rel, nextId, bx, tx, binds, scheds>>

SchedStart ==
  /\ leaf = <<>>
  /\ rel = {}
  /\ nextId = 2
  /\ bx = None
  /\ tx = None
  /\ binds = {}
  /\ fadd = None
  /\ scheds = 0
  /\ log = <<>>

SchedCells ==
  \/ CreateScheduleCell
  \/ SplitCell
  \/ PrintCell
  \/ BindCell
  \/ BuildCell

(***************************************************************************)
(* C1.  Splitting the original axis i of C again, after it has been split, *)
(* fails with the error "already been splitted" and changes nothing: the   *)
(* leaves, relations and bindings of the stage and the names bx, tx are as *)
(* before, bx = i.outer and tx = i.inner are still the leaves of the       *)
(* stage, and from there the bind cell binds them and, once they are       *)
(* bound, the build cell builds fadd over them.                            *)
(***************************************************************************)
Ran(cell) == Len(log') = Len(log) + 1 /\ log'[Len(log')].cell = cell

AlreadySplit == scheds > 0 /\ ~InSeq(RootAxis, leaf)

C1_ResplitFailsScheduleKept ==
  [][ /\ (Ran("split") /\ AlreadySplit) =>
           /\ log'[Len(log')].err = "TVMError: already been splitted"
           /\ leaf' = leaf /\ rel' = rel /\ binds' = binds
           /\ bx' = bx /\ tx' = tx /\ fadd' = fadd
           /\ bx.name = "i.outer" /\ tx.name = "i.inner"
           /\ leaf' = <<bx', tx'>>
      /\ (Ran("bind") /\ AlreadySplit) =>
           /\ log'[Len(log')].err = "ok"
           /\ <<bx, "blockIdx.x">> \in binds'
           /\ <<tx, "threadIdx.x">> \in binds'
      /\ (Ran("build") /\ AlreadySplit /\ AllBound) =>
           /\ log'[Len(log')].err = "ok"
           /\ fadd'.axes = <<bx, tx>>
    ]_vars

\* a session in which the second split failed and bind and build then worked
C1_Witness ==
  \E p, q, r \in 1..Len(log) :
    /\ p < q /\ q < r
    /\ log[p].cell = "split" /\ log[p].err = "TVMError: already been splitted"
    /\ log[q].cell = "bind" /\ log[q].err = "ok"
    /\ log[r].cell = "build" /\ log[r].err = "ok"
    /\ \A u \in p..r : log[u].cell # "create_schedule"
    /\ fadd # None /\ fadd.axes = <<bx, tx>>

(***************************************************************************)
(* Get-started notebook: the vector add C[i] = A[i] + B[i].                *)
(***************************************************************************)
\* a = tvm.nd.array(np.random.uniform(size=n)...), b likewise: the contents
\* of the inputs, picked by seed
AVal(i) == 1 + ((i + seed) % 3)
BVal(i) == 1 + ((2 * i + 3 * seed) % 5)

\* C = tvm.compute(A.shape, lambda i: A[i] + B[i])
Body(i) == AVal(i) + BVal(i)

\* c = tvm.nd.array(np.zeros(n, dtype=C.dtype), ctx)
Zeros(len) == [i \in 0..(len - 1) |-> 0]

\* the vector lengths tried: those within MaxDelta of a multiple of Factor
Lengths ==
  {len \in 0..(MaxBlocks * Factor + MaxDelta) :
     \/ len % Factor <= MaxDelta
     \/ len % Factor >= Factor - MaxDelta}

\* ceil(n / 64): the extent of bx = i.outer
CeilDivFloor(a, b) == a \div b
CeilDiv(a, b) == (a + b - 1) \div b

\* the statement C[i] = A[i] + B[i] executed for index i: a store (and two
\* loads) at i, recorded as out of bounds when i is outside the arrays
Store(i) ==
  IF i \in 0..(n - 1)
  THEN /\ C' = [C EXCEPT ![i] = Body(i)]
       /\ wr' = [wr EXCEPT ![i] = @ + 1]
       /\ UNCHANGED oob
  ELSE /\ oob' = oob \cup {i}
       /\ UNCHANGED <<C, wr>>

NoStore == UNCHANGED <<C, wr, oob>>

\* the kernel without its else branch: only full blocks are computed
myadd_kernel0_FullBlocksOnly(blockIdx, threadIdx) ==
  IF blockIdx < n \div Factor
  THEN blockIdx * Factor + threadIdx
  ELSE -1

\* myadd_kernel0 as run by thread (blockIdx.x, threadIdx.x): the index it
\* stores to, or -1 when it stores nothing (n / 64 is C's int division, n >= 0)
myadd_kernel0(blockIdx, threadIdx) ==
  IF blockIdx < n \div Factor
  THEN blockIdx * Factor + threadIdx
  ELSE IF blockIdx * Factor < n - threadIdx
       THEN blockIdx * Factor + threadIdx
       ELSE -1

\* the launch of myadd_kernel0: blockIdx.x in [0, ceil(n/64)), threadIdx.x in
\* [0, 64); thread t of the grid is (t div 64, t mod 64)
GridThreads == CeilDiv(n, Factor) * Factor

RunThread(t) ==
  LET i == myadd_kernel0(t \div Factor, t % Factor)
  IN  IF i = -1 THEN NoStore ELSE Store(i)

\* the hardware runs the threads in any order: every pair of threads is run
\* in both orders by taking the next thread from either end of the grid
RunLowestThread ==
  /\ lo < hi
  /\ RunThread(lo)
  /\ lo' = lo + 1
  /\ UNCHANGED <<hi, bxi, txi, Cd, di>>

RunHighestThread ==
  /\ lo < hi
  /\ RunThread(hi - 1)
  /\ hi' = hi - 1
  /\ UNCHANGED <<lo, bxi, txi, Cd, di>>

KernelDone == lo = hi

\* fadd(a, b, c) for every tried length and input
KernelStart ==
  /\ n \in Lengths
  /\ m = 0
  /\ seed \in 0..MaxSeed
  /\ C = Zeros(n)
  /\ wr = Zeros(n)
  /\ oob = {}
  /\ lo = 0
  /\ hi = GridThreads
  /\ bxi = 0
  /\ txi = 0
  /\ Cd = <<>>
  /\ di = 0

KernelThreads ==
  \/ RunLowestThread
  \/ RunHighestThread

\* the default schedule: one iteration of
\*   for (int i = 0; i < n; ++i) C[i] = A[i] + B[i];
DefaultIteration ==
  /\ di < n
  /\ Cd' = [Cd EXCEPT ![di] = Body(di)]
  /\ di' = di + 1
  /\ UNCHANGED <<C, wr, oob, lo, hi, bxi, txi>>

DefaultDone == di >= n

\* the split loop nest: one iteration of the inner loop,
\*   for (bx = 0; bx < ceil(n / 64); ++bx) for (tx = 0; tx < 64; ++tx) {
\*     int i = bx * 64 + tx; if (i < n) C[i] = A[i] + B[i]; }
NestIteration ==
  /\ DefaultDone
  /\ bxi < CeilDiv(n, Factor)
  /\ LET i == bxi * Factor + txi
     IN  IF i < n THEN Store(i) ELSE NoStore
  /\ IF txi + 1 < Factor
     THEN /\ txi' = txi + 1
          /\ bxi' = bxi
     ELSE /\ txi' = 0
          /\ bxi' = bxi + 1
  /\ UNCHANGED <<lo, hi, Cd, di>>

NestDone == DefaultDone /\ bxi >= CeilDiv(n, Factor)

\* both loops are run on the same inputs, each into its own zeroed output
NestStart ==
  /\ n \in Lengths
  /\ m = 0
  /\ seed \in 0..MaxSeed
  /\ C = Zeros(n)
  /\ wr = Zeros(n)
  /\ oob = {}
  /\ lo = 0
  /\ hi = 0
  /\ bxi = 0
  /\ txi = 0
  /\ Cd = Zeros(n)
  /\ di = 0

NestPrograms ==
  \/ DefaultIteration
  \/ NestIteration

AddIdle ==
  /\ C = <<>>
  /\ wr = <<>>
  /\ oob = {}
  /\ lo = 0
  /\ hi = 0
  /\ bxi = 0
  /\ txi = 0
  /\ Cd = <<>>
  /\ di = 0

SchedIdle == SchedStart

(***************************************************************************)
(* C2.  For every vector length n, once every thread of the grid           *)
(* (blockIdx.x in [0, ceil(n/64)), threadIdx.x in [0, 64)) has run         *)
(* myadd_kernel0, in whatever order, C[i] = A[i] + B[i] for every i in     *)
(* [0, n), every such C[i] was stored to by exactly one thread, and no     *)
(* thread touched an index outside [0, n).                                 *)
(***************************************************************************)
C2_KernelAddsEveryElementOnce ==
  KernelDone =>
    /\ \A i \in 0..(n - 1) : C[i] = AVal(i) + BVal(i) /\ wr[i] = 1
    /\ oob = {}

\* a finished launch of two blocks, the last one partial, whose threads were
\* taken from both ends of the grid
C2_Witness ==
  /\ KernelDone
  /\ n > Factor /\ n % Factor # 0
  /\ 0 < lo /\ hi < GridThreads
  /\ \A i \in 0..(n - 1) : wr[i] = 1

(***************************************************************************)
(* C3.  The loop nest that split(factor=64) stands for runs the body       *)
(* C[i] = A[i] + B[i] at most once for any i and never for an i outside    *)
(* [0, n), and when it has finished it has run it exactly once for every   *)
(* i in [0, n) and left the same C as the default loop for i in [0, n),    *)
(* for every n, a multiple of 64 or not.                                   *)
(***************************************************************************)
C3_SplitNestEqualsDefaultLoop ==
  /\ oob = {}
  /\ \A i \in 0..(n - 1) : wr[i] <= 1
  /\ NestDone =>
       /\ \A i \in 0..(n - 1) : wr[i] = 1
       /\ C = Cd

\* the nest has finished a length that is more than one block and no multiple
\* of 64, and the last block skipped its iterations past n
C3_Witness ==
  /\ NestDone
  /\ bxi > 1
  /\ n % Factor # 0
  /\ C = Cd
  /\ \A i \in 0..(n - 1) : C[i] = AVal(i) + BVal(i)

(***************************************************************************)
(* Reduction notebook: B = numpy.sum(A, axis=1), the row sums of A.        *)
(***************************************************************************)
\* factor=16 of the split of the reduction axis k
KFactor == 16

\* a = tvm.nd.array(np.random.uniform(size=(nn, nn))...): the element of the
\* flat, row-major buffer of A at index x, picked by seed
A(x) == 1 + ((x * x + seed * x + seed) % 5)

\* the buffer A holds n * m elements, the buffer B n elements
ASize == n * m

\* the row counts and column counts tried: a few rows, and columns within
\* MaxDelta of a multiple of the split factor
Rows == 0..MaxRows

Cols ==
  {len \in 0..(MaxColBlocks * KFactor + MaxDelta) :
     \/ len % KFactor <= MaxDelta
     \/ len % KFactor >= KFactor - MaxDelta}

\* B = tvm.compute((n,), lambda i: tvm.sum(A[i, k], axis=k)), which is
\* numpy.sum(A, axis=1)[i]: the sum of A[i][k] over k in [from, m)
RECURSIVE SumRow(_, _)
SumRow(i, from) ==
  IF from >= m THEN 0 ELSE A(i * m + from) + SumRow(i, from + 1)

\* a load of A at flat index x: its value, 0 when x is outside the buffer
LoadA(x) == IF x \in 0..(ASize - 1) THEN A(x) ELSE 0

\* the access records of a statement reading A[x]
Touch(x) ==
  IF x \in 0..(ASize - 1)
  THEN /\ acc' = [acc EXCEPT ![x] = @ + 1]
       /\ UNCHANGED roob
  ELSE /\ roob' = roob \cup {x}
       /\ UNCHANGED acc

\* the flat index of A[i][k] read column-major
AIndexColumnMajor(i, k) == i + k * n

\* the flat index of A[i][k]: ((i*m) + k)
AIndex(i, k) == (i * m) + k

\* the default schedule's lowered IR:
\*   for (i, 0, n) { B[i] = 0f; for (k, 0, m) { B[i] = (B[i] + A[((i*m) + k)]) } }
\* B[i] = 0.000000f
RowInit ==
  /\ pc = "init"
  /\ ri < n
  /\ B' = [B EXCEPT ![ri] = 0]
  /\ zi' = [zi EXCEPT ![ri] = @ + 1]
  /\ rk' = 0
  /\ pc' = "acc"
  /\ UNCHANGED <<B_rf, acc, roob, ri, ko, ki>>

\* B[i] = (B[i] + A[((i*m) + k)])
RowAccumulate ==
  /\ pc = "acc"
  /\ rk < m
  /\ B' = [B EXCEPT ![ri] = @ + LoadA(AIndex(ri, rk))]
  /\ Touch(AIndex(ri, rk))
  /\ rk' = rk + 1
  /\ UNCHANGED <<B_rf, zi, pc, ri, ko, ki>>

\* the k loop is over: next i
RowNext ==
  /\ pc = "acc"
  /\ rk >= m
  /\ ri' = ri + 1
  /\ pc' = "init"
  /\ UNCHANGED <<B, B_rf, zi, acc, roob, rk, ko, ki>>

RowSumDone == pc = "init" /\ ri >= n

\* b as the caller passes it: any content (seed in every element)
Filled(len) == [i \in 0..(len - 1) |-> seed]

RowSumStart ==
  /\ n \in Rows
  /\ m \in Cols
  /\ seed \in 0..MaxSeed
  /\ B = Filled(n)
  /\ B_rf = <<>>
  /\ zi = Zeros(n)
  /\ acc = Zeros(ASize)
  /\ roob = {}
  /\ pc = "init"
  /\ ri = 0
  /\ rk = 0
  /\ ko = 0
  /\ ki = 0

RowSumProgram ==
  \/ RowInit
  \/ RowAccumulate
  \/ RowNext

RedIdle ==
  /\ B = <<>>
  /\ B_rf = <<>>
  /\ zi = <<>>
  /\ acc = <<>>
  /\ roob = {}
  /\ pc = "idle"
  /\ ri = 0
  /\ rk = 0
  /\ ko = 0
  /\ ki = 0

(***************************************************************************)
(* C4.  Under the default schedule the row-sum program sets B[i] to 0      *)
(* exactly once per row, before it adds anything to B[i], adds each        *)
(* A[i][k] at most once, reads nothing outside A, and when it has finished *)
(* every A[i][k] has been added exactly once and B[i] is the sum of        *)
(* A[i][k] over k in [0, m) for every i in [0, n) (0 when m = 0), which is *)
(* numpy.sum(A, axis=1).                                                   *)
(***************************************************************************)
C4_DefaultScheduleIsRowSum ==
  /\ roob = {}
  /\ \A x \in 0..(ASize - 1) : acc[x] <= zi[x \div m]
  /\ \A i \in 0..(n - 1) : zi[i] <= 1
  /\ RowSumDone =>
       /\ \A i \in 0..(n - 1) : zi[i] = 1 /\ B[i] = SumRow(i, 0)
       /\ \A x \in 0..(ASize - 1) : acc[x] = 1
       /\ m = 0 => \A i \in 0..(n - 1) : B[i] = 0

\* a finished run over more than one row and more than a block of columns,
\* on a B that did not start as zeros
C4_Witness ==
  /\ RowSumDone
  /\ n > 1 /\ m > KFactor
  /\ seed # 0
  /\ \A i \in 0..(n - 1) : B[i] = SumRow(i, 0) /\ B[i] # seed

(***************************************************************************)
(* Reduction notebook: split(k, factor=16) and rfactor(B, ki).             *)
(***************************************************************************)
\* the guard of the accumulation into B.rf with <= for <
RfGuardOffByOne(kin, kout) == kin <= (m - (kout * KFactor))

\* if ((k.inner < (m - (k.outer*16))))
RfGuard(kin, kout) == kin < (m - (kout * KFactor))

\* the flat index of B.rf[k.inner][i]: ((k.inner*n) + i)
RfIndex(kin, i) == (kin * n) + i

\* the buffer B.rf holds 16 * n elements
RfSize == KFactor * n

\* a load of B.rf at flat index x: its value, 0 when x is outside the buffer
LoadRf(x) == IF x \in 0..(RfSize - 1) THEN B_rf[x] ELSE 0

\* produce B.rf: for (k.inner, 0, 16) for (i, 0, n) { ... }
\* B.rf[((k.inner*n) + i)] = 0.000000f
RfInit ==
  /\ pc = "rf_init"
  /\ ki < KFactor
  /\ ri < n
  /\ B_rf' = [B_rf EXCEPT ![RfIndex(ki, ri)] = 0]
  /\ ko' = 0
  /\ pc' = "rf_acc"
  /\ UNCHANGED <<B, zi, acc, roob, ri, rk, ki>>

\* the i loop is over: next k.inner
RfNextKInner ==
  /\ pc = "rf_init"
  /\ ki < KFactor
  /\ ri >= n
  /\ ki' = ki + 1
  /\ ri' = 0
  /\ UNCHANGED <<B, B_rf, zi, acc, roob, pc, rk, ko>>

\* for (k.outer, 0, ((m + 15)/16)) { if (k.inner < m - k.outer*16)
\*   B.rf[(k.inner*n) + i] = B.rf[(k.inner*n) + i] + A[(k.inner + (i*m)) + (k.outer*16)] }
RfAccumulate ==
  /\ pc = "rf_acc"
  /\ ko < CeilDiv(m, KFactor)
  /\ IF RfGuard(ki, ko)
     THEN LET x == (ki + (ri * m)) + (ko * KFactor)
          IN  /\ B_rf' = [B_rf EXCEPT ![RfIndex(ki, ri)] = @ + LoadA(x)]
              /\ Touch(x)
     ELSE UNCHANGED <<B_rf, acc, roob>>
  /\ ko' = ko + 1
  /\ UNCHANGED <<B, zi, pc, ri, rk, ki>>

\* the k.outer loop is over: next i
RfNextRow ==
  /\ pc = "rf_acc"
  /\ ko >= CeilDiv(m, KFactor)
  /\ ri' = ri + 1
  /\ pc' = "rf_init"
  /\ UNCHANGED <<B, B_rf, zi, acc, roob, rk, ko, ki>>

\* produce B.rf is over: produce B starts
RfProduced ==
  /\ pc = "rf_init"
  /\ ki >= KFactor
  /\ ri' = 0
  /\ pc' = "b_init"
  /\ UNCHANGED <<B, B_rf, zi, acc, roob, rk, ko, ki>>

\* produce B: for (ax0, 0, n) { B[ax0] = 0.000000f ...
FinalInit ==
  /\ pc = "b_init"
  /\ ri < n
  /\ B' = [B EXCEPT ![ri] = 0]
  /\ zi' = [zi EXCEPT ![ri] = @ + 1]
  /\ rk' = 0
  /\ pc' = "b_acc"
  /\ UNCHANGED <<B_rf, acc, roob, ri, ko, ki>>

\* for (k.inner.v, 0, 16) { B[ax0] = (B[ax0] + B.rf[(ax0 + (k.inner.v*n))]) }
FinalAccumulate ==
  /\ pc = "b_acc"
  /\ rk < KFactor
  /\ LET x == ri + (rk * n)
     IN  /\ B' = [B EXCEPT ![ri] = @ + LoadRf(x)]
         /\ roob' = IF x \in 0..(RfSize - 1) THEN roob ELSE roob \cup {x}
  /\ rk' = rk + 1
  /\ UNCHANGED <<B_rf, zi, acc, pc, ri, ko, ki>>

\* the k.inner.v loop is over: next ax0
FinalNext ==
  /\ pc = "b_acc"
  /\ rk >= KFactor
  /\ ri' = ri + 1
  /\ pc' = "b_init"
  /\ UNCHANGED <<B, B_rf, zi, acc, roob, rk, ko, ki>>

RfactorDone == pc = "b_init" /\ ri >= n

\* allocate B.rf[float32 * 16 * n]: not initialised (seed in every element)
RfactorStart ==
  /\ n \in Rows
  /\ m \in Cols
  /\ seed \in 0..MaxSeed
  /\ B = Filled(n)
  /\ B_rf = Filled(RfSize)
  /\ zi = Zeros(n)
  /\ acc = Zeros(ASize)
  /\ roob = {}
  /\ pc = "rf_init"
  /\ ri = 0
  /\ rk = 0
  /\ ko = 0
  /\ ki = 0

RfactorProgram ==
  \/ RfInit
  \/ RfNextKInner
  \/ RfAccumulate
  \/ RfNextRow
  \/ RfProduced
  \/ FinalInit
  \/ FinalAccumulate
  \/ FinalNext

\* the sum of A[i][kin + 16*kout] over the kout in [from, ceil(m/16)) with
\* kin + 16*kout < m
RECURSIVE StridedSum(_, _, _)
StridedSum(i, kin, from) ==
  IF from >= CeilDiv(m, KFactor)
  THEN 0
  ELSE (IF kin + KFactor * from < m
        THEN A(i * m + kin + KFactor * from)
        ELSE 0) + StridedSum(i, kin, from + 1)

\* the sum of B.rf[kin][i] over the kin in [from, 16)
RECURSIVE SumRf(_, _)
SumRf(i, from) ==
  IF from >= KFactor THEN 0 ELSE B_rf[from * n + i] + SumRf(i, from + 1)

(***************************************************************************)
(* C5.  After split(k, factor=16) and rfactor(B, ki) the two-stage program *)
(* reads nothing outside A or B.rf, and when it has finished, for every    *)
(* n and m (m below 16 and m no multiple of 16 included): B.rf[ki][i],     *)
(* stored with ki as first dimension (flat index ki*n + i), is the sum of  *)
(* A[i][ki + 16*ko] over the ko in [0, ceil(m/16)) with ki + 16*ko < m;    *)
(* B[i] is the sum of B.rf[ki][i] over ki in [0, 16); and that is the      *)
(* original reduction, the sum of A[i][k] over k in [0, m), every A[i][k]  *)
(* having been added exactly once.                                         *)
(***************************************************************************)
C5_RfactorEqualsReduction ==
  /\ roob = {}
  /\ RfactorDone =>
       /\ \A kin \in 0..(KFactor - 1) : \A i \in 0..(n - 1) :
            B_rf[kin * n + i] = StridedSum(i, kin, 0)
       /\ \A i \in 0..(n - 1) : B[i] = SumRf(i, 0) /\ B[i] = SumRow(i, 0)
       /\ \A x \in 0..(ASize - 1) : acc[x] = 1

\* a finished run with more than one row and 17 columns or more, no multiple
\* of 16, on buffers that did not start as zeros
C5_Witness ==
  /\ RfactorDone
  /\ n > 1 /\ m > KFactor /\ m % KFactor # 0
  /\ seed # 0
  /\ \A i \in 0..(n - 1) : B[i] = SumRow(i, 0)
  /\ B_rf[0] = A(0) + A(KFactor)

(***************************************************************************)
(* Reduction notebook: the cross-thread reduction kernel                   *)
(* default_function_kernel0, launched with blockIdx.x in [0, ceil(n/32)),  *)
(* threadIdx.y in [0, 32) and threadIdx.x in [0, 16).                      *)
(***************************************************************************)
\* factor=32 of the split of the row axis
RowFactor == 32

\* the threads of a warp
WarpSize == 32

\* __shared__ float red_buf0[512]
RedBufSize == 512

\* a block has 32 * 16 threads: 16 warps, each holding two rows of 16 lanes
WarpsPerBlock == (RowFactor * KFactor) \div WarpSize

\* threadIdx.y and threadIdx.x of lane l of warp w
LaneY(w, l) == ((w * WarpSize) + l) \div KFactor
LaneX(w, l) == ((w * WarpSize) + l) % KFactor

\* the row counts tried for the split row axis
SplitRows ==
  {len \in 0..(MaxRowBlocks * RowFactor + MaxDelta) :
     \/ len % RowFactor <= MaxDelta
     \/ len % RowFactor >= RowFactor - MaxDelta}

\* if ((blockIdx.x * 32) < (n - threadIdx.y))
RowGuard(bidx, ty) == (bidx * RowFactor) < (n - ty)

\* if (threadIdx.x < (m - (k_outer * 16)))
ColGuard(tidx, kout) == tidx < (m - (kout * KFactor))

\* A[((((blockIdx.x * 32) + threadIdx.y) * m) + threadIdx.x) + (k_outer * 16)]
KernelAIndex(bidx, ty, tidx, kout) ==
  ((((bidx * RowFactor) + ty) * m) + tidx) + (kout * KFactor)

\* B_rf[0] = 0; for (k_outer = 0; k_outer < ((15 + m) / 16); ++k_outer) ...:
\* B_rf[0] of thread (ty, tidx) after the loop, from iteration kout on
RECURSIVE Accumulated(_, _, _, _, _)
Accumulated(bidx, ty, tidx, kout, b_rf) ==
  IF kout >= (15 + m) \div KFactor
  THEN b_rf
  ELSE Accumulated(bidx, ty, tidx, kout + 1,
         IF RowGuard(bidx, ty) /\ ColGuard(tidx, kout)
         THEN b_rf + LoadA(KernelAIndex(bidx, ty, tidx, kout))
         ELSE b_rf)

\* the indices of A that warp w loads in the loop
WarpLoads(bidx, w) ==
  {KernelAIndex(bidx, LaneY(w, l[1]), LaneX(w, l[1]), l[2]) :
     l \in {q \in (0..(WarpSize - 1)) \X (0..(((15 + m) \div KFactor) - 1)) :
              /\ RowGuard(bidx, LaneY(w, q[1]))
              /\ ColGuard(LaneX(w, q[1]), q[2])}}

\* the slots of red_buf0 that belong to warp w
WarpSlots(w) == (w * WarpSize)..((w * WarpSize) + WarpSize - 1)

\* first section, up to the first __syncthreads(): every lane of warp w runs
\* the loop and stores red_buf0[ty * 16 + tx] = row guard ? B_rf[0] : 0
WarpAccumulate ==
  /\ pc = "accumulate"
  /\ warp < WarpsPerBlock
  /\ red_buf0' = [s \in 0..(RedBufSize - 1) |->
                    IF s \in WarpSlots(warp)
                    THEN IF RowGuard(blk, s \div KFactor)
                         THEN Accumulated(blk, s \div KFactor, s % KFactor, 0, 0)
                         ELSE 0
                    ELSE red_buf0[s]]
  /\ roob' = roob \cup {x \in WarpLoads(blk, warp) : x \notin 0..(ASize - 1)}
  /\ warp' = warp + 1
  /\ UNCHANGED <<B, B_rf, zi, acc, pc, ri, rk, ko, ki, blk, diverged>>

\* __syncthreads(): every warp of the block has arrived
Barrier(from, to) ==
  /\ pc = from
  /\ warp >= WarpsPerBlock
  /\ pc' = to
  /\ warp' = 0
  /\ UNCHANGED <<B, B_rf, zi, acc, roob, ri, rk, ko, ki, red_buf0, blk, diverged>>

SyncAfterAccumulate == Barrier("accumulate", "reduce")

\* one statement red_buf0[ty*16 + tx] = red_buf0[ty*16 + tx] +
\* red_buf0[off + ty*16 + tx] executed by the lanes tx < 8 of warp w in
\* lockstep: every lane loads, then every lane stores
LockstepStatement(buf, w, off) ==
  [s \in 0..(RedBufSize - 1) |->
     IF s \in WarpSlots(w) /\ (s % KFactor) < 8
     THEN buf[s] + buf[s + off]
     ELSE buf[s]]

\* the four statements of if (threadIdx.x < 8) { ... }, the warp in lockstep
LockstepReduce(buf, w) ==
  LET b8 == LockstepStatement(buf, w, 8)
      b4 == LockstepStatement(b8, w, 4)
      b2 == LockstepStatement(b4, w, 2)
  IN  LockstepStatement(b2, w, 1)

\* the four statements executed by the one lane that owns slot s
LaneReduce(buf, s) ==
  LET b8 == [buf EXCEPT ![s] = @ + buf[s + 8]]
      b4 == [b8 EXCEPT ![s] = @ + b8[s + 4]]
      b2 == [b4 EXCEPT ![s] = @ + b4[s + 2]]
  IN  [b2 EXCEPT ![s] = @ + b2[s + 1]]

\* the lanes tx < 8 of warp w, one after the other, each running its four
\* statements before the next lane starts; lanes is the order of their slots
RECURSIVE SerialReduce(_, _)
SerialReduce(buf, lanes) ==
  IF lanes = <<>>
  THEN buf
  ELSE SerialReduce(LaneReduce(buf, Head(lanes)), Tail(lanes))

\* the slots of the lanes tx < 8 of warp w, lowest lane first
RECURSIVE ActiveSlots(_, _)
ActiveSlots(w, l) ==
  IF l >= WarpSize
  THEN <<>>
  ELSE (IF LaneX(w, l) < 8 THEN <<(w * WarpSize) + l>> ELSE <<>>)
         \o ActiveSlots(w, l + 1)

Reverse(s) == [p \in 1..Len(s) |-> s[Len(s) + 1 - p]]

\* second section, between the two __syncthreads(): the code has no
\* synchronisation between the four statements, so the outcome depends on how
\* the hardware runs the lanes of a warp: in lockstep (SIMT, every statement
\* by all lanes together), or, with independent thread scheduling, diverged;
\* of the diverged orders the model takes the two in which the lanes run one
\* after the other, lowest first or highest first
WarpReduce ==
  /\ pc = "reduce"
  /\ warp < WarpsPerBlock
  /\ \/ /\ red_buf0' = LockstepReduce(red_buf0, warp)
        /\ UNCHANGED diverged
     \/ /\ diverged < MaxDiverged
        /\ diverged' = diverged + 1
        /\ \/ red_buf0' = SerialReduce(red_buf0, ActiveSlots(warp, 0))
           \/ red_buf0' = SerialReduce(red_buf0, Reverse(ActiveSlots(warp, 0)))
  /\ warp' = warp + 1
  /\ UNCHANGED <<B, B_rf, zi, acc, roob, pc, ri, rk, ko, ki, blk>>

SyncAfterReduce == Barrier("reduce", "store")

\* the rows that warp w stores: its lanes with threadIdx.x == 0 whose row
\* guard holds
WarpRows(bidx, w) ==
  {LaneY(w, l) : l \in {q \in 0..(WarpSize - 1) :
                          LaneX(w, q) = 0 /\ RowGuard(bidx, LaneY(w, q))}}

\* last section: if (row guard) if (threadIdx.x == 0)
\*   B[(blockIdx.x * 32) + threadIdx.y] = red_buf0[threadIdx.y * 16]
WarpStore ==
  /\ pc = "store"
  /\ warp < WarpsPerBlock
  /\ B' = [r \in DOMAIN B |->
             IF r - (blk * RowFactor) \in WarpRows(blk, warp)
             THEN red_buf0[(r - (blk * RowFactor)) * KFactor]
             ELSE B[r]]
  /\ roob' = roob \cup {(blk * RowFactor) + ty : ty \in
                          {y \in WarpRows(blk, warp) :
                             (blk * RowFactor) + y \notin DOMAIN B}}
  /\ warp' = warp + 1
  /\ UNCHANGED <<B_rf, zi, acc, pc, ri, rk, ko, ki, red_buf0, blk, diverged>>

\* the block has finished: the next block of the grid runs
BlockDone ==
  /\ pc = "store"
  /\ warp >= WarpsPerBlock
  /\ blk' = blk + 1
  /\ warp' = 0
  /\ pc' = "accumulate"
  /\ UNCHANGED <<B, B_rf, zi, acc, roob, ri, rk, ko, ki, red_buf0, diverged>>

\* fcuda(a, b): blockIdx.x in [0, ceil(n/32))
GridBlocks == CeilDiv(n, RowFactor)

CrossThreadDone == blk >= GridBlocks

CrossThreadStart ==
  /\ n \in SplitRows
  /\ m \in Cols
  /\ seed \in 0..MaxSeed
  /\ B = Filled(n)
  /\ B_rf = <<>>
  /\ zi = <<>>
  /\ acc = <<>>
  /\ roob = {}
  /\ pc = "accumulate"
  /\ ri = 0
  /\ rk = 0
  /\ ko = 0
  /\ ki = 0
  /\ red_buf0 = Filled(RedBufSize)
  /\ blk = 0
  /\ warp = 0
  /\ diverged = 0

CrossThreadKernel ==
  /\ ~CrossThreadDone
  /\ \/ WarpAccumulate
     \/ SyncAfterAccumulate
     \/ WarpReduce
     \/ SyncAfterReduce
     \/ WarpStore
     \/ BlockDone

GpuIdle ==
  /\ red_buf0 = <<>>
  /\ blk = 0
  /\ warp = 0
  /\ diverged = 0

(***************************************************************************)
(* C6.  When every block of the grid has run the cross-thread reduction    *)
(* kernel, every row r in [0, n) has B[r] = the sum of A[r][k] over k in   *)
(* [0, m), for every n and m, and nothing outside A or B was touched.      *)
(***************************************************************************)
C6_CrossThreadKernelIsRowSum ==
  /\ roob = {}
  /\ CrossThreadDone => \A r \in 0..(n - 1) : B[r] = SumRow(r, 0)

\* the same, for the launches in which every warp ran in lockstep
CrossThreadLockstepIsRowSum ==
  /\ roob = {}
  /\ (CrossThreadDone /\ diverged = 0) =>
       \A r \in 0..(n - 1) : B[r] = SumRow(r, 0)

\* at the first barrier every thread (ty, tx) of a row of A has stored the sum
\* of the columns tx + 16*k_outer < m of its row, the other threads 0
CrossThreadPartialSums ==
  (pc = "reduce" /\ warp = 0 /\ ~CrossThreadDone) =>
     \A ty \in 0..(RowFactor - 1) : \A tidx \in 0..(KFactor - 1) :
        red_buf0[(ty * KFactor) + tidx] =
          IF (blk * RowFactor) + ty < n
          THEN StridedSum((blk * RowFactor) + ty, tidx, 0)
          ELSE 0

(***************************************************************************)
(* Tensorcore matmul notebook: matmul_nn, the operand shapes of test_gemm  *)
(* and the NumPy reference of tune_and_evaluate.  A matrix is a record     *)
(* [rows, cols, at] with at a function on (0..rows-1) \X (0..cols-1).      *)
(***************************************************************************)
Layouts == {"NN", "NT", "TN", "TT"}
Dtypes == {"float16", "int8"}

\* test_gemm / tune_and_evaluate: shape_a and shape_b of a layout
shape_a(lay) == IF lay \in {"NN", "TN"} THEN <<N, L>> ELSE <<L, N>>
shape_b(lay) == IF lay \in {"NN", "NT"} THEN <<L, M>> ELSE <<M, L>>

InShape(idx, shape) ==
  /\ idx[1] \in 0..(shape[1] - 1)
  /\ idx[2] \in 0..(shape[2] - 1)

\* .astype(np.int8): two's complement of width 8
AsInt8(v) == ((v + 128) % 256) - 128

\* .astype(np.int32) and .astype(out_type), out_type 'int' for int8 and 'float'
\* for float16: a widening, so an int8 operand is taken through its width 8
\* and keeps its value (the sums of the sizes tried stay far inside 32 bits)
AsInt32(v) == AsInt8(v)
AsOutType(v) == IF dtype = "int8" THEN AsInt8(v) ELSE v

\* the random operand contents: np.random.randint(low=-128, high=127) as int8,
\* np.random.uniform as float16 (small exact values stand for the floats)
RandomValue(i, j, salt) ==
  IF dtype = "int8"
  THEN AsInt8(((37 * i + 91 * j + 101 * seed + salt) % 255) - 128)
  ELSE (i * i + 3 * j + seed + salt) % 4

Matrix(shape, salt) ==
  [rows |-> shape[1], cols |-> shape[2],
   at |-> [p \in (0..(shape[1] - 1)) \X (0..(shape[2] - 1)) |->
             RandomValue(p[1], p[2], salt)]]

a_np == Matrix(shape_a(layout), 0)
b_np == Matrix(shape_b(layout), 50)

\* x.T
Transpose(x) ==
  [rows |-> x.cols, cols |-> x.rows,
   at |-> [p \in (0..(x.cols - 1)) \X (0..(x.rows - 1)) |-> x.at[<<p[2], p[1]>>]]]

\* x.astype(np.int32)
AsTypeInt32(x) == [x EXCEPT !.at = [p \in DOMAIN x.at |-> AsInt32(x.at[p])]]

\* element (i, j) of np.dot(x, y), the terms from k on
RECURSIVE DotSum(_, _, _, _, _)
DotSum(x, y, i, j, k) ==
  IF k >= x.cols
  THEN 0
  ELSE x.at[<<i, k>>] * y.at[<<k, j>>] + DotSum(x, y, i, j, k + 1)

\* np.dot(x, y) of two matrices whose inner sizes agree
Dot(x, y) ==
  [rows |-> x.rows, cols |-> y.cols,
   at |-> [p \in (0..(x.rows - 1)) \X (0..(y.cols - 1)) |->
             DotSum(x, y, p[1], p[2], 0)]]

\* tune_and_evaluate: c_np of a layout
c_np ==
  LET a == IF dtype = "int8" THEN AsTypeInt32(a_np) ELSE a_np
      b == IF dtype = "int8" THEN AsTypeInt32(b_np) ELSE b_np
  IN  CASE layout = "NN" -> Dot(a, b)
        [] layout = "NT" -> Dot(Transpose(a), b)
        [] layout = "TN" -> Dot(a, Transpose(b))
        [] layout = "TT" -> Dot(Transpose(a), Transpose(b))

\* matmul_nn: for layout TN and TT the index of B is written as for NN and NT
MatmulBIndexNoTranspose(lay, j, k) == <<k, j>>

\* matmul_nn: the index of A and of B under the sum, per layout
MatmulAIndex(lay, i, k) == IF lay \in {"NN", "TN"} THEN <<i, k>> ELSE <<k, i>>
MatmulBIndex(lay, j, k) == IF lay \in {"NN", "NT"} THEN <<k, j>> ELSE <<j, k>>

\* a read of operand x at idx; outside the shape it yields no defined value
Read(x, idx) == IF idx \in DOMAIN x.at THEN x.at[idx] ELSE 0

\* tvm.sum(A[...].astype(out_type) * B[...].astype(out_type), axis=k) with
\* k = tvm.reduce_axis((0, L)): the terms from k on
RECURSIVE MatmulSum(_, _, _, _)
MatmulSum(lay, i, j, k) ==
  IF k >= L
  THEN 0
  ELSE AsOutType(Read(a_np, MatmulAIndex(lay, i, k)))
         * AsOutType(Read(b_np, MatmulBIndex(lay, j, k)))
       + MatmulSum(lay, i, j, k + 1)

\* the reads of element (i, j) that fall outside shape_a or shape_b
MatmulOutOfShape(lay, i, j) ==
  {<<"A", MatmulAIndex(lay, i, k)>> : k \in
      {q \in 0..(L - 1) : ~InShape(MatmulAIndex(lay, i, q), shape_a(lay))}}
  \cup
  {<<"B", MatmulBIndex(lay, j, k)>> : k \in
      {q \in 0..(L - 1) : ~InShape(MatmulBIndex(lay, j, q), shape_b(lay))}}

\* func(a_tvm, b_tvm, c_tvm): element (mi, mj) of tvm.compute((N, M), ...)
MatmulElement ==
  /\ mi < N
  /\ c_tvm' = IF <<mi, mj>> \in DOMAIN c_tvm
              THEN [c_tvm EXCEPT ![<<mi, mj>>] = MatmulSum(layout, mi, mj, 0)]
              ELSE c_tvm
  /\ moob' = moob \cup MatmulOutOfShape(layout, mi, mj)
                  \cup (IF <<mi, mj>> \in DOMAIN c_tvm THEN {} ELSE {<<"C", <<mi, mj>>>>})
  /\ IF mj + 1 < M
     THEN mj' = mj + 1 /\ mi' = mi
     ELSE mj' = 0 /\ mi' = mi + 1
  /\ UNCHANGED <<N, M, L, dtype, layout>>

MatmulDone == mi >= N

\* M, N, L, dtype, layout from the command line; a_np, b_np as drawn;
\* c_tvm = np.zeros(c_np.shape)
MatmulStart ==
  /\ N \in 1..MaxDim
  /\ M \in 1..MaxDim
  /\ L \in 1..MaxDim
  /\ dtype \in Dtypes
  /\ layout \in Layouts
  /\ seed \in 0..MaxSeed
  /\ n = 0
  /\ m = 0
  /\ c_tvm = [p \in DOMAIN c_np.at |-> 0]
  /\ mi = 0
  /\ mj = 0
  /\ moob = {}

MmIdle ==
  /\ N = 0
  /\ M = 0
  /\ L = 0
  /\ dtype = ""
  /\ layout = ""
  /\ c_tvm = <<>>
  /\ mi = 0
  /\ mj = 0
  /\ moob = {}

\* the elements of the result that func has computed so far
Computed == {p \in (0..(N - 1)) \X (0..(M - 1)) : p[1] < mi \/ (p[1] = mi /\ p[2] < mj)}

(***************************************************************************)
(* C7.  For each of the layouts NN, NT, TN, TT, with the operand shapes of *)
(* test_gemm, every index matmul_nn reads lies inside the operand shapes   *)
(* and every element (i, j) of its result, i in [0, N), j in [0, M),       *)
(* equals the element of the NumPy reference c_np of tune_and_evaluate.    *)
(***************************************************************************)
C7_MatmulEqualsNumpyReference ==
  /\ moob = {}
  /\ c_np.rows = N /\ c_np.cols = M
  /\ \A p \in Computed : c_tvm[p] = c_np.at[p]

\* a non-square product of each kind has been computed to the end
C7_Witness ==
  /\ MatmulDone
  /\ layout = "TT"
  /\ dtype = "int8"
  /\ N # M /\ M # L /\ N # L
  /\ \E p \in DOMAIN c_tvm : c_tvm[p] # 0

(***************************************************************************)
(* Relay pass infrastructure notebook.  A Relay function is a table of     *)
(* nodes [op, args, val, prim] and a root: args are the ids of the         *)
(* argument nodes (always smaller ids), val is the value of a constant,    *)
(* prim the primitive function a call has been fused into (0: none).       *)
(* What Sequential and the passes do is library behaviour, taken as the    *)
(* notebook states it.                                                     *)
(***************************************************************************)
Node(op, args, val) == [op |-> op, args |-> args, val |-> val, prim |-> 0]

NoModule == [nodes |-> <<>>, root |-> 0]

\* def example(): c_data is np.empty(...), so its contents are arbitrary
example(c_data) ==
  [nodes |-> << Node("const", <<>>, c_data),        \* c
                Node("var:weight", <<>>, 0),
                Node("var:x", <<>>, 0),
                Node("nn.conv2d", <<3, 2>>, 0),     \* conv
                Node("add", <<1, 1>>, 0),           \* y = add(c, c)
                Node("const", <<>>, 2),
                Node("multiply", <<5, 6>>, 0),      \* y = multiply(y, 2)
                Node("add", <<4, 7>>, 0),           \* y = add(conv, y)
                Node("add", <<8, 1>>, 0),           \* z = add(y, c)
                Node("add", <<8, 1>>, 0),           \* z1 = add(y, c)
                Node("add", <<9, 10>>, 0) >>,       \* z2 = add(z, z1)
   root |-> 11]

IsCall(nd) == nd.op \in {"add", "multiply", "nn.conv2d"}

\* the nodes of the function that its root reaches
RECURSIVE Reaches(_, _)
Reaches(ir, ids) ==
  LET more == ids \cup UNION {{ir.nodes[i].args[a] : a \in DOMAIN ir.nodes[i].args} : i \in ids}
  IN  IF more = ids THEN ids ELSE Reaches(ir, more)

Live(ir) == IF ir.root = 0 THEN {} ELSE Reaches(ir, {ir.root})

\* the pairs of distinct additions of the function with the same arguments
IdenticalAdditions(ir) ==
  {pr \in Live(ir) \X Live(ir) :
     /\ pr[1] < pr[2]
     /\ ir.nodes[pr[1]].op = "add"
     /\ ir.nodes[pr[2]].op = "add"
     /\ ir.nodes[pr[1]].args = ir.nodes[pr[2]].args}

\* a call of add or multiply all of whose arguments are constants
Foldable(ir, i) ==
  /\ ir.nodes[i].op \in {"add", "multiply"}
  /\ \A a \in DOMAIN ir.nodes[i].args : ir.nodes[ir.nodes[i].args[a]].op = "const"

\* relay.transform.FoldConstant(): constant calls become constants, from
\* node i on
RECURSIVE FoldFrom(_, _)
FoldFrom(ir, i) ==
  IF i > Len(ir.nodes)
  THEN ir
  ELSE LET x == ir.nodes[ir.nodes[i].args[1]].val
           y == ir.nodes[ir.nodes[i].args[2]].val
           value == IF ir.nodes[i].op = "add" THEN x + y ELSE x * y
       IN  FoldFrom(IF Foldable(ir, i)
                    THEN [ir EXCEPT !.nodes[i] = Node("const", <<>>, value)]
                    ELSE ir,
                    i + 1)

\* every use of node old becomes a use of node new
Redirect(ir, old, new) ==
  [nodes |-> [k \in DOMAIN ir.nodes |->
                [ir.nodes[k] EXCEPT !.args =
                   [a \in DOMAIN ir.nodes[k].args |->
                      IF ir.nodes[k].args[a] = old THEN new ELSE ir.nodes[k].args[a]]]],
   root |-> IF ir.root = old THEN new ELSE ir.root]

\* relay.transform.EliminateCommonSubexpr(): a call equal to an earlier call
\* is replaced by it, from node i on
RECURSIVE EliminateFrom(_, _)
EliminateFrom(ir, i) ==
  IF i > Len(ir.nodes)
  THEN ir
  ELSE LET earlier == {j \in 1..(i - 1) :
                          /\ IsCall(ir.nodes[j])
                          /\ ir.nodes[j].op = ir.nodes[i].op
                          /\ ir.nodes[j].args = ir.nodes[i].args}
       IN  EliminateFrom(IF IsCall(ir.nodes[i]) /\ earlier # {}
                         THEN Redirect(ir, i, CHOOSE j \in earlier :
                                                \A q \in earlier : j <= q)
                         ELSE ir,
                         i + 1)

\* relay.transform.FuseOps(fuse_opt_level): every call is put into a
\* primitive function; with fuse_opt_level 0 each into its own, otherwise
\* into that of its first argument that is a call; from node i on
RECURSIVE FuseFrom(_, _, _)
FuseFrom(ir, fuse_opt_level, i) ==
  IF i > Len(ir.nodes)
  THEN ir
  ELSE LET calls == {a \in DOMAIN ir.nodes[i].args :
                        IsCall(ir.nodes[ir.nodes[i].args[a]])}
       IN  FuseFrom(IF IsCall(ir.nodes[i])
                    THEN [ir EXCEPT !.nodes[i].prim =
                            IF fuse_opt_level = 0 \/ calls = {}
                            THEN i
                            ELSE ir.nodes[ir.nodes[i].args[
                                   CHOOSE a \in calls :
                                     \A q \in calls : a <= q]].prim]
                    ELSE ir,
                    fuse_opt_level, i + 1)

\* the passes of seq, each with the optimization level it is registered with
FoldConstant == [name |-> "FoldConstant", opt_level |-> 2, arg |-> 0]
EliminateCommonSubexpr == [name |-> "EliminateCommonSubexpr", opt_level |-> 3, arg |-> 0]
FuseOps(fuse_opt_level) == [name |-> "FuseOps", opt_level |-> 1, arg |-> fuse_opt_level]

\* pass(mod)
Transform(pass, ir) ==
  CASE pass.name = "FoldConstant" -> FoldFrom(ir, 1)
    [] pass.name = "EliminateCommonSubexpr" -> EliminateFrom(ir, 1)
    [] pass.name = "FuseOps" -> FuseFrom(ir, pass.arg, 1)
    [] pass.name = "PrintIR" -> ir

\* the optimization level of Sequential when no build_config is given
DefaultOptLevel == 2

\* the default configuration, taken with optimization level 3
DefaultContextOptLevel3 == [opt_level |-> 3, disabled_pass |-> {}]

DefaultContext == [opt_level |-> DefaultOptLevel, disabled_pass |-> {}]

\* relay.build_config(opt_level=..., disabled_pass=[...])
build_config(opt_level, disabled_pass) ==
  [opt_level |-> opt_level, disabled_pass |-> disabled_pass]

\* Sequential runs a pass whose level is strictly below the configured one
PassEnabledStrictlyBelow(pass, ctx) ==
  /\ pass.name \notin ctx.disabled_pass
  /\ pass.opt_level < ctx.opt_level

\* Sequential does not look at disabled_pass
PassEnabledIgnoresDisabled(pass, ctx) == pass.opt_level <= ctx.opt_level

\* Sequential executes a pass if it is not disabled and its optimization
\* level is less than or equal to the configured one
PassEnabled(pass, ctx) ==
  /\ pass.name \notin ctx.disabled_pass
  /\ pass.opt_level <= ctx.opt_level

\* seq(mod) under ctx: the passes from the k-th on; the outcome is the module
\* and, for reference, the names of the passes that were executed
RECURSIVE RunFrom(_, _, _, _)
RunFrom(passes, ctx, out, k) ==
  IF k > Len(passes)
  THEN out
  ELSE RunFrom(passes, ctx,
               IF PassEnabled(passes[k], ctx)
               THEN [out EXCEPT !.ir = Transform(passes[k], out.ir),
                                !.executed = Append(out.executed, passes[k].name)]
               ELSE out,
               k + 1)

Sequential(passes, ctx, ir) ==
  RunFrom(passes, ctx, [ir |-> ir, executed |-> <<>>, ctx |-> ctx], 1)

NoResult == [ir |-> NoModule, executed |-> <<>>, ctx |-> build_config(0, {})]

Defined(result) == result.ir # NoModule

\* f = example(); mod = relay.Module.from_expr(f); seq = Sequential([...]);
\* mod1 = seq(mod)
SequentialCell ==
  \E c_data \in 0..MaxData :
    /\ mod' = example(c_data)
    /\ seq' = <<FoldConstant, EliminateCommonSubexpr, FuseOps(2)>>
    /\ mod1' = Sequential(seq', DefaultContext, mod')
    /\ UNCHANGED <<mod2, mod3, modc>>

\* with relay.build_config(opt_level=3): mod2 = seq(mod)
OptLevel3Cell ==
  /\ mod # NoModule
  /\ seq # <<>>
  /\ mod2' = Sequential(seq, build_config(3, {}), mod)
  /\ UNCHANGED <<mod, seq, mod1, mod3, modc>>

\* with relay.build_config(opt_level=3,
\*     disabled_pass=["EliminateCommonSubexpr"]): mod3 = seq(mod)
DisabledPassCell ==
  /\ mod # NoModule
  /\ seq # <<>>
  /\ mod3' = Sequential(seq, build_config(3, {"EliminateCommonSubexpr"}), mod)
  /\ UNCHANGED <<mod, seq, mod1, mod2, modc>>

\* the same cell with any other level and any other passes disabled
ConfiguredCell ==
  /\ mod # NoModule
  /\ seq # <<>>
  /\ \E opt_level \in 0..MaxOptLevel : \E disabled_pass \in SUBSET {seq[k].name : k \in DOMAIN seq} :
       modc' = Sequential(seq, build_config(opt_level, disabled_pass), mod)
  /\ UNCHANGED <<mod, seq, mod1, mod2, mod3>>

PassCells ==
  \/ SequentialCell
  \/ OptLevel3Cell
  \/ DisabledPassCell
  \/ ConfiguredCell

PassStart ==
  /\ mod = NoModule
  /\ seq = <<>>
  /\ mod1 = NoResult
  /\ mod2 = NoResult
  /\ mod3 = NoResult
  /\ modc = NoResult

PassIdle == PassStart

\* pass name was executed in the run that gave result
Executed(result, name) == \E k \in DOMAIN result.executed : result.executed[k] = name

\* the visible effect of each pass on a result
Folded(result) == \A i \in Live(result.ir) : ~Foldable(result.ir, i)
Fused(result) ==
  \A i \in Live(result.ir) : IsCall(result.ir.nodes[i]) => result.ir.nodes[i].prim # 0
PerformedExceptEliminate(result) ==
  /\ Executed(result, "FoldConstant") /\ Folded(result)
  /\ Executed(result, "FuseOps") /\ Fused(result)

(***************************************************************************)
(* C8.  seq = [FoldConstant, EliminateCommonSubexpr, FuseOps(2)] run       *)
(* outside any build_config executes only passes whose optimization level  *)
(* is at most 2: EliminateCommonSubexpr is not performed (the two          *)
(* identical additions remain in mod1), the other two passes are           *)
(* performed.                                                              *)
(***************************************************************************)
C8_DefaultSkipsEliminateCommonSubexpr ==
  Defined(mod1) =>
    /\ \A k \in DOMAIN seq : Executed(mod1, seq[k].name) <=> seq[k].opt_level <= 2
    /\ ~Executed(mod1, "EliminateCommonSubexpr")
    /\ IdenticalAdditions(mod1.ir) # {}
    /\ PerformedExceptEliminate(mod1)

C8_Witness ==
  /\ Defined(mod1)
  /\ mod1.ctx = build_config(2, {})
  /\ mod1.ir # mod

(***************************************************************************)
(* C9.  Inside build_config(opt_level=3) the same seq executes             *)
(* EliminateCommonSubexpr, so only one of the two identical additions is   *)
(* kept in mod2; in general, under build_config(opt_level=l) a pass of seq *)
(* is executed when its optimization level is less than or equal to l.     *)
(***************************************************************************)
C9_OptLevel3RunsEliminateCommonSubexpr ==
  /\ Defined(mod2) =>
       /\ Executed(mod2, "EliminateCommonSubexpr")
       /\ IdenticalAdditions(mod2.ir) = {}
       /\ \E i \in Live(mod2.ir) :
            mod2.ir.nodes[i].op = "add" /\ mod2.ir.nodes[i].args = <<8, 1>>
  /\ (Defined(modc) /\ modc.ctx.disabled_pass = {}) =>
       \A k \in DOMAIN seq :
         Executed(modc, seq[k].name) <=> seq[k].opt_level <= modc.ctx.opt_level

C9_Witness ==
  /\ Defined(mod2)
  /\ Defined(modc)
  /\ modc.ctx = build_config(1, {})
  /\ Executed(modc, "FuseOps")

(***************************************************************************)
(* C10.  A pass named in disabled_pass is not executed by Sequential even  *)
(* when the configured opt_level admits it: under build_config(opt_level=3,*)
(* disabled_pass=['EliminateCommonSubexpr']) mod3 again contains the two   *)
(* identical additions, and the passes of seq that are not disabled are    *)
(* still executed.                                                         *)
(***************************************************************************)
C10_DisabledPassIsSkipped ==
  /\ Defined(mod3) =>
       /\ ~Executed(mod3, "EliminateCommonSubexpr")
       /\ IdenticalAdditions(mod3.ir) # {}
       /\ PerformedExceptEliminate(mod3)
  /\ Defined(modc) =>
       \A k \in DOMAIN seq :
         /\ seq[k].name \in modc.ctx.disabled_pass => ~Executed(modc, seq[k].name)
         /\ (seq[k].name \notin modc.ctx.disabled_pass
               /\ seq[k].opt_level <= modc.ctx.opt_level) => Executed(modc, seq[k].name)

C10_Witness ==
  /\ Defined(mod3)
  /\ mod3.ctx = build_config(3, {"EliminateCommonSubexpr"})
  /\ Defined(modc)
  /\ modc.ctx = build_config(3, {"FoldConstant"})
  /\ Executed(modc, "EliminateCommonSubexpr")

(***************************************************************************)
(* Relay pass infrastructure notebook: the debugging cell.  Sequential is  *)
(* run one pass at a time, so that what PrintIR prints and when 'done' is  *)
(* printed can be observed.                                                *)
(***************************************************************************)
\* relay.transform.PrintIR(): prints the module it is given, changes nothing
PrintIR == [name |-> "PrintIR", opt_level |-> 0, arg |-> 0]

Printed(text, ir) == [text |-> text, ir |-> ir]

\* Sequential takes the passes last to first
PassAtReversed(passes, k) == passes[Len(passes) + 1 - k]

\* the k-th pass that Sequential takes
PassAt(passes, k) == passes[k]

\* f = example(); mod = relay.Module.from_expr(f); seq = Sequential([...]);
\* with relay.build_config(opt_level=3): enters seq(mod)
\* (other levels and disabled passes are tried as well)
DebugCellBegin ==
  /\ step = 0
  /\ \E c_data \in 0..MaxData : mod' = example(c_data)
  /\ seq' = <<FoldConstant, PrintIR, EliminateCommonSubexpr, FuseOps(-1), PrintIR>>
  /\ \E opt_level \in 0..MaxOptLevel :
       \E disabled_pass \in SUBSET {"FoldConstant", "EliminateCommonSubexpr", "FuseOps"} :
         cur' = [ir |-> mod', executed |-> <<>>,
                 ctx |-> build_config(opt_level, disabled_pass)]
  /\ stdout' = <<>>
  /\ step' = 1
  /\ UNCHANGED <<mod1, mod2, mod3, modc>>

\* Sequential: the next pass of seq, executed if it is enabled
DebugPass ==
  /\ step \in 1..Len(seq)
  /\ LET pass == PassAt(seq, step)
     IN  IF PassEnabled(pass, cur.ctx)
         THEN /\ cur' = [cur EXCEPT !.ir = Transform(pass, cur.ir),
                                    !.executed = Append(cur.executed, pass.name)]
              /\ stdout' = IF pass.name = "PrintIR"
                           THEN Append(stdout, Printed("", cur.ir))
                           ELSE stdout
         ELSE UNCHANGED <<cur, stdout>>
  /\ step' = step + 1
  /\ UNCHANGED <<mod, seq, mod1, mod2, mod3, modc>>

\* mod = (the result of seq); print("done")
DebugCellEnd ==
  /\ step = Len(seq) + 1
  /\ seq # <<>>
  /\ mod' = cur.ir
  /\ stdout' = Append(stdout, Printed("done", NoModule))
  /\ step' = 0
  /\ UNCHANGED <<seq, cur, mod1, mod2, mod3, modc>>

DebugCell ==
  \/ DebugCellBegin
  \/ DebugPass
  \/ DebugCellEnd

DbgIdle ==
  /\ stdout = <<>>
  /\ step = 0
  /\ cur = NoResult

DebugStart == PassStart /\ DbgIdle

(***************************************************************************)
(* C11.  Sequential executes its enabled passes in the order they are      *)
(* listed, each on the output of the previous one.  In [FoldConstant,      *)
(* PrintIR, EliminateCommonSubexpr, FuseOps, PrintIR] under opt_level=3    *)
(* the first PrintIR prints the IR after constant folding and before       *)
(* common-subexpression elimination, the second prints it after fusion,    *)
(* and 'done' is printed only after the whole sequence has finished.       *)
(***************************************************************************)
C11_SequentialRunsPassesInOrder ==
  /\ step >= 1 => cur = Sequential(SubSeq(seq, 1, step - 1), cur.ctx, mod)
  /\ \A p \in DOMAIN stdout :
       stdout[p].text = "done" =>
         /\ p = Len(stdout)
         /\ step = 0
         /\ mod = cur.ir
         /\ \A q \in 1..(p - 1) : stdout[q].text = ""
  /\ cur.ctx = build_config(3, {}) =>
       /\ Len(stdout) >= 1 =>
            /\ stdout[1].text = ""
            /\ Folded(stdout[1])
            /\ IdenticalAdditions(stdout[1].ir) # {}
            /\ ~Fused(stdout[1])
            /\ Executed(cur, "FoldConstant")
       /\ Len(stdout) >= 2 =>
            /\ stdout[2].text = ""
            /\ Folded(stdout[2])
            /\ IdenticalAdditions(stdout[2].ir) = {}
            /\ Fused(stdout[2])
            /\ cur.executed = <<"FoldConstant", "PrintIR", "EliminateCommonSubexpr",
                                "FuseOps", "PrintIR">>
       /\ Len(stdout) >= 3 => stdout[3].text = "done" /\ Len(stdout) = 3

C11_Witness ==
  /\ cur.ctx = build_config(3, {})
  /\ Len(stdout) = 3
  /\ stdout[3].text = "done"
  /\ stdout[1].ir # stdout[2].ir

(***************************************************************************)
(* Relay pass infrastructure notebook: CustomPipeline, a function pass     *)
(* whose ReplaceConstant mutator rewrites the constants of a function.     *)
(***************************************************************************)
\* visit_const written with the operands the other way round
visit_const_swapped(ir, i, multiplier) ==
  [ir EXCEPT !.nodes = [Append(Append(ir.nodes, Node("const", <<>>, multiplier)),
                               ir.nodes[i])
                          EXCEPT ![i] = Node("multiply",
                                             <<Len(ir.nodes) + 2, Len(ir.nodes) + 1>>, 0)]]

\* def visit_const(self, c): return relay.multiply(obj.multiplier, c)
\* node i, the constant c, becomes the call; the multiplier and c are its
\* two new argument nodes
visit_const(ir, i, multiplier) ==
  [ir EXCEPT !.nodes = [Append(Append(ir.nodes, Node("const", <<>>, multiplier)),
                               ir.nodes[i])
                          EXCEPT ![i] = Node("multiply",
                                             <<Len(ir.nodes) + 1, Len(ir.nodes) + 2>>, 0)]]

\* the modules tried: from 1 to MaxFuncs functions, each an example()
Modules ==
  UNION {[1..k -> {example(c_data) : c_data \in 0..MaxData}] : k \in 1..MaxFuncs}

\* ReplaceConstant().visit(func): the mutator visits node cvi of the function
\* that is being rewritten; a constant is replaced, any other node is rebuilt
\* from its (already visited) arguments
VisitNode ==
  /\ cout # <<>>
  /\ Len(cout) <= Len(cmod)
  /\ cvi <= Len(cmod[Len(cout)].nodes)
  /\ cout' = [cout EXCEPT ![Len(cout)] =
                IF cmod[Len(cout)].nodes[cvi].op = "const"
                   /\ cvi \in Live(cmod[Len(cout)])
                THEN visit_const(@, cvi, cmul)
                ELSE @]
  /\ cvi' = cvi + 1
  /\ UNCHANGED <<cmod, cmul>>

\* the function pass goes on to the next function of the module
NextFunction ==
  /\ cout # <<>>
  /\ Len(cout) < Len(cmod)
  /\ cvi > Len(cmod[Len(cout)].nodes)
  /\ cout' = Append(cout, cmod[Len(cout) + 1])
  /\ cvi' = 1
  /\ UNCHANGED <<cmod, cmul>>

CustomPipeline ==
  \/ VisitNode
  \/ NextFunction

\* custom_pass = CustomPipeline(multiplier=relay.const(3, "float"));
\* custom_pass(mod) starts on the first function
CustomStart ==
  /\ cmod \in Modules
  /\ cmul \in {3, 4}
  /\ cout = <<cmod[1]>>
  /\ cvi = 1

CustIdle ==
  /\ cmod = <<>>
  /\ cmul = 0
  /\ cout = <<>>
  /\ cvi = 0

\* node i of function f has been visited
Visited(f, i) == f < Len(cout) \/ (f = Len(cout) /\ i < cvi)

CustomDone == Len(cout) = Len(cmod) /\ cvi > Len(cmod[Len(cmod)].nodes)

(***************************************************************************)
(* C12.  CustomPipeline(multiplier) visits each function of the module and *)
(* replaces every constant c of the function by multiply(multiplier, c);   *)
(* every other node (variables, operator calls and the order of their      *)
(* arguments) and the root stay as they were.                              *)
(***************************************************************************)
C12_CustomPipelineReplacesConstants ==
  /\ CustomDone => \A f \in DOMAIN cmod : \A i \in Live(cmod[f]) : Visited(f, i)
  /\ \A f \in DOMAIN cout :
       /\ cout[f].root = cmod[f].root
       /\ \A i \in Live(cmod[f]) :
            IF Visited(f, i) /\ cmod[f].nodes[i].op = "const"
            THEN /\ cout[f].nodes[i].op = "multiply"
                 /\ Len(cout[f].nodes[i].args) = 2
                 /\ cout[f].nodes[cout[f].nodes[i].args[1]] = Node("const", <<>>, cmul)
                 /\ cout[f].nodes[cout[f].nodes[i].args[2]] = cmod[f].nodes[i]
            ELSE cout[f].nodes[i] = cmod[f].nodes[i]

C12_Witness ==
  /\ CustomDone
  /\ Len(cmod) = 2
  /\ cmod[1] # cmod[2]
  /\ \E i \in Live(cmod[2]) : cout[2].nodes[i] # cmod[2].nodes[i]

(***************************************************************************)
(* Intrinsics notebook: the lowering rules of intrinsic calls and their    *)
(* registry.  A call is [kind, dtype, name, arg], kind "intrin" for an     *)
(* intrinsic call and "extern" for an extern call.                         *)
(***************************************************************************)
call_pure_extern(dt, name, arg) == [kind |-> "extern", dtype |-> dt, name |-> name, arg |-> arg]
call_pure_intrin(dt, name, arg) == [kind |-> "intrin", dtype |-> dt, name |-> name, arg |-> arg]

\* def my_cuda_math_rule(op)
my_cuda_math_rule(op) ==
  IF op.dtype = "float32"
  THEN call_pure_extern("float32", op.name \o "f", op.arg)
  ELSE IF op.dtype = "float64"
  THEN call_pure_extern("float32", op.name, op.arg)
  ELSE op

\* def my_cuda_mylog_rule(op)
my_cuda_mylog_rule(op) ==
  IF op.dtype = "float32"
  THEN call_pure_extern("float32", "logf", op.arg)
  ELSE IF op.dtype = "float64"
  THEN call_pure_extern("float64", "log", op.arg)
  ELSE op

\* the rules that are registered before the notebook runs: CUDA lowers a
\* float32 call to the fast-math function, OpenCL to the function of the
\* same name
BuiltinRule(target, op) ==
  IF target = "cuda" /\ op.dtype = "float32"
  THEN call_pure_extern(op.dtype, "__" \o op.name \o "f", op.arg)
  ELSE IF target = "cuda" /\ op.dtype = "float16"
  THEN call_pure_extern(op.dtype, "h" \o op.name, op.arg)
  ELSE call_pure_extern(op.dtype, op.name, op.arg)

\* the rule registered under a name, applied to a call
ApplyRule(rule, target, op) ==
  CASE rule = "my_cuda_math_rule" -> my_cuda_math_rule(op)
    [] rule = "my_cuda_mylog_rule" -> my_cuda_mylog_rule(op)
    [] rule = "builtin" -> BuiltinRule(target, op)

\* registration that keeps a rule that is already there
register_intrin_rule_keep(reg, target, name, rule, override) ==
  IF reg[<<target, name>>] # "" THEN reg ELSE [reg EXCEPT ![<<target, name>>] = rule]

\* tvm.register_intrin_rule(target, name, rule, override): an existing rule
\* is replaced only with override
register_intrin_rule(reg, target, name, rule, override) ==
  IF reg[<<target, name>>] # "" /\ ~override
  THEN reg
  ELSE [reg EXCEPT ![<<target, name>>] = rule]

IntrinDtypes == {"float16", "float32", "float64"}

IntrinLogged(cell, target, op, code) ==
  ilog' = Append(ilog, [cell |-> cell, target |-> target, op |-> op, code |-> code])

\* A = tvm.placeholder((n,), name='A'); B = tvm.compute(A.shape,
\* lambda i: tvm.exp(A[i])); tvm.build(s, [A, B], target): the intrinsic call
\* of B is lowered by the rule registered for the target
\* (float32 in the notebook; "can also be used for float64 data types")
BuildExpCell(target) ==
  /\ Len(ilog) < MaxExec
  /\ \E dt \in IntrinDtypes :
       LET op == call_pure_intrin(dt, "exp", "A[i]")
       IN  IntrinLogged("build", target, op, ApplyRule(irules[<<target, "exp">>], target, op))
  /\ UNCHANGED irules

BuildCudaCell == BuildExpCell("cuda")
BuildOpenclCell == BuildExpCell("opencl")

\* tvm.register_intrin_rule("cuda", "exp", my_cuda_math_rule, override=True)
RegisterRuleCell ==
  /\ Len(ilog) < MaxExec
  /\ irules' = register_intrin_rule(irules, "cuda", "exp", "my_cuda_math_rule", TRUE)
  /\ IntrinLogged("register", "cuda", call_pure_intrin("", "exp", ""),
                  call_pure_intrin("", "exp", ""))

\* tvm.register_intrin_rule("cuda", "mylog", my_cuda_mylog_rule, override=True);
\* B = tvm.compute(A.shape, lambda i: mylog(A[i])); tvm.build(s, [A, B], "cuda")
MylogCell ==
  /\ Len(ilog) < MaxExec
  /\ irules' = register_intrin_rule(irules, "cuda", "mylog", "my_cuda_mylog_rule", TRUE)
  /\ \E dt \in IntrinDtypes :
       LET op == call_pure_intrin(dt, "mylog", "A[i]")
       IN  IntrinLogged("build", "cuda", op, ApplyRule(irules'[<<"cuda", "mylog">>], "cuda", op))

IntrinCells ==
  \/ BuildCudaCell
  \/ BuildOpenclCell
  \/ RegisterRuleCell
  \/ MylogCell

IntrinStart ==
  /\ irules = [k \in {"cuda", "opencl"} \X {"exp", "mylog"} |->
                 IF k[2] = "exp" THEN "builtin" ELSE ""]
  /\ ilog = <<>>

IntrinIdle ==
  /\ irules = <<>>
  /\ ilog = <<>>

\* entry p of the log is a build of a float32 exp for the target
ExpBuild(p, target) ==
  /\ ilog[p].cell = "build"
  /\ ilog[p].target = target
  /\ ilog[p].op.name = "exp"
  /\ ilog[p].op.dtype = "float32"

RegisteredBefore(p) == \E q \in 1..(p - 1) : ilog[q].cell = "register"

(***************************************************************************)
(* C13.  Registering my_cuda_math_rule for ('cuda', 'exp') with            *)
(* override=True overrides the existing rule: every CUDA build after the   *)
(* registration lowers a float32 exp call to an extern call of 'expf',     *)
(* where a build before it gave the fast-math '__expf'; the rule           *)
(* registered for opencl is left unchanged.                                *)
(***************************************************************************)
C13_RegisteredRuleOverrides ==
  /\ irules[<<"opencl", "exp">>] = "builtin"
  /\ \A p \in DOMAIN ilog :
       /\ ExpBuild(p, "cuda") =>
            ilog[p].code = call_pure_extern("float32",
                             IF RegisteredBefore(p) THEN "expf" ELSE "__expf", "A[i]")
       /\ ExpBuild(p, "opencl") =>
            ilog[p].code = BuiltinRule("opencl", ilog[p].op)

C13_Witness ==
  \E p, q, r, u \in DOMAIN ilog :
    /\ p < q /\ q < r /\ r < u
    /\ ExpBuild(p, "cuda") /\ ilog[p].code.name = "__expf"
    /\ ilog[q].cell = "register"
    /\ ExpBuild(r, "cuda") /\ ilog[r].code.name = "expf"
    /\ ExpBuild(u, "opencl")


\* entry p of the log is a CUDA build whose call was lowered by
\* my_cuda_math_rule or by my_cuda_mylog_rule
CustomRuleBuild(p) ==
  /\ ilog[p].cell = "build"
  /\ ilog[p].target = "cuda"
  /\ \/ ilog[p].op.name = "exp" /\ RegisteredBefore(p)
     \/ ilog[p].op.name = "mylog"

(***************************************************************************)
(* C20.  Both custom CUDA lowering rules preserve the data type of the     *)
(* intrinsic call they lower: for every op dtype, the expression returned  *)
(* by my_cuda_math_rule and by my_cuda_mylog_rule has result dtype equal   *)
(* to op.dtype (a float32 call becomes the float function, a float64 call  *)
(* the double function with a float64 result, and a call of any other      *)
(* dtype is returned as the same op, untranslated).                        *)
(***************************************************************************)
C20_RulesPreserveDtype ==
  \A p \in DOMAIN ilog :
    CustomRuleBuild(p) =>
      LET op == ilog[p].op
          code == ilog[p].code
          base == IF op.name = "mylog" THEN "log" ELSE op.name
      IN  /\ code.dtype = op.dtype
          /\ op.dtype = "float32" => code = call_pure_extern("float32", base \o "f", op.arg)
          /\ op.dtype = "float64" => code = call_pure_extern("float64", base, op.arg)
          /\ op.dtype \notin {"float32", "float64"} => code = op

\* my_cuda_mylog_rule alone preserves the dtype
MylogRulePreservesDtype ==
  \A p \in DOMAIN ilog :
    (CustomRuleBuild(p) /\ ilog[p].op.name = "mylog") => ilog[p].code.dtype = ilog[p].op.dtype

(***************************************************************************)
(* Get-started notebook: the host side of fadd(a, b, c).  A, B and C are   *)
(* declared with the one shape variable n, which the call binds to the     *)
(* length of a.                                                            *)
(***************************************************************************)
\* the generated check, looking at the inputs only
HostCheckInputsOnly(la, lb, lc) == lb = la

\* the generated check of the constraints in the parameters: B and C have
\* the shape (n,) of A
HostCheck(la, lb, lc) == lb = la /\ lc = la

\* fadd(a, b, c): the host checks the arguments and, if they pass, launches
\* the kernel over n elements
HostCall ==
  /\ hstatus = "idle"
  /\ IF HostCheck(n, hb, hc)
     THEN /\ hstatus' = "running"
          /\ hi' = GridThreads
     ELSE /\ hstatus' = "error"
          /\ UNCHANGED hi
  /\ UNCHANGED <<C, wr, oob, lo, bxi, txi, Cd, di, hb, hc>>

HostThreads == KernelThreads /\ UNCHANGED hostVars

HostProgram ==
  \/ HostCall
  \/ HostThreads

\* a, b, c = tvm.nd.array(...) of any lengths; c = np.zeros
HostStart ==
  /\ n \in 0..MaxLen
  /\ hb \in 0..MaxLen
  /\ hc \in 0..MaxLen
  /\ m = 0
  /\ seed \in 0..MaxSeed
  /\ C = Zeros(hc)
  /\ wr = Zeros(hc)
  /\ oob = {}
  /\ lo = 0
  /\ hi = 0
  /\ bxi = 0
  /\ txi = 0
  /\ Cd = <<>>
  /\ di = 0
  /\ hstatus = "idle"

HostIdle ==
  /\ hb = 0
  /\ hc = 0
  /\ hstatus = ""

(***************************************************************************)
(* C14.  The host wrapper of fadd checks the constraints of its            *)
(* parameters: a call fadd(a, b, c) in which the three arrays do not all   *)
(* have the same length raises an error instead of running the kernel.     *)
(***************************************************************************)
C14_HostChecksShapes ==
  /\ (hb # n \/ hc # n) =>
       /\ hstatus \in {"idle", "error"}
       /\ lo = 0 /\ hi = 0
       /\ C = Zeros(hc) /\ wr = Zeros(hc) /\ oob = {}
  /\ hstatus = "error" => (hb # n \/ hc # n)

C14_Witness ==
  /\ hstatus = "error"
  /\ hb = n
  /\ hc # n
  /\ n > 0

(***************************************************************************)
(* Tensorcore matmul notebook: the storage_align parameters of test_gemm   *)
(* and the row stride of the shared buffer they give.                      *)
(***************************************************************************)
\* offset = 8 for either input type
AlignOffsetSame(dt) == 8

\* factor = 16; offset = 8; if dtype == 'int8': factor = 32; offset = 16
AlignFactor(dt) == IF dt = "int8" THEN 32 ELSE 16
AlignOffset(dt) == IF dt = "int8" THEN 16 ELSE 8

\* the size of an element in bytes
ElemBytes(dt) == IF dt = "int8" THEN 1 ELSE 2

\* load_matrix_sync: the stride must be a multiple of 16 bytes
StrideBytes == 16

\* the rows tried: short ones and the tiles step_k * warp_tile_k of the knobs
Extents == (1..MaxExtent) \cup {step_k * 16 : step_k \in {8, 16, 32}}

\* s[AA].storage_align(AA.op.axis[0], factor, offset): the stride of the axis
\* becomes the least s >= extent with s % factor = offset
storage_align(extent, factor, offset) ==
  extent + ((offset + factor - (extent % factor)) % factor)

\* test_gemm: the cache stage is aligned
StorageAlign ==
  /\ sstride = 0
  /\ sstride' = storage_align(sextent, AlignFactor(dtype), AlignOffset(dtype))
  /\ UNCHANGED sextent

AlignStart ==
  /\ dtype \in Dtypes
  /\ sextent \in Extents
  /\ sstride = 0
  /\ N = 0 /\ M = 0 /\ L = 0
  /\ layout = ""
  /\ c_tvm = <<>>
  /\ mi = 0 /\ mj = 0
  /\ moob = {}

AlignIdle ==
  /\ sextent = 0
  /\ sstride = 0

(***************************************************************************)
(* C15.  The storage_align parameters of test_gemm make the shared-memory  *)
(* row stride a multiple of 16 bytes for float16 (factor 16, offset 8,     *)
(* 2-byte elements) and for int8 (factor 32, offset 16, 1-byte elements):  *)
(* every stride s in elements with s mod factor = offset has               *)
(* (s * element size) mod 16 = 0.                                          *)
(***************************************************************************)
C15_AlignedStrideIsMultipleOf16Bytes ==
  /\ \A s \in 0..(sextent + AlignFactor(dtype)) :
       s % AlignFactor(dtype) = AlignOffset(dtype) =>
         (s * ElemBytes(dtype)) % StrideBytes = 0
  /\ sstride # 0 =>
       /\ sstride >= sextent
       /\ sstride % AlignFactor(dtype) = AlignOffset(dtype)
       /\ (sstride * ElemBytes(dtype)) % StrideBytes = 0

C15_Witness ==
  /\ dtype = "float16"
  /\ sextent = 256
  /\ sstride = 264

(***************************************************************************)
(* Relay pass infrastructure notebook: passes invoked directly on the      *)
(* module, one cell each; every cell prints the module it has made.        *)
(***************************************************************************)
\* a pass invoked directly obeys the default optimization level
InvokeIfEnabled(pass, ir) ==
  IF PassEnabled(pass, DefaultContext) THEN Transform(pass, ir) ELSE ir

\* pass(mod), outside Sequential: the pass is applied
Invoke(pass, ir) == Transform(pass, ir)

\* f = example(); mod = relay.Module.from_expr(f);
\* fold_const = relay.transform.FoldConstant(); mod = fold_const(mod); print(mod)
FoldCell ==
  /\ Len(stdout) < MaxExec
  /\ \E c_data \in 0..MaxData : mod' = Invoke(FoldConstant, example(c_data))
  /\ stdout' = Append(stdout, Printed("FoldConstant", mod'))
  /\ UNCHANGED <<seq, mod1, mod2, mod3, modc, step, cur>>

\* mod = relay.transform.EliminateCommonSubexpr()(mod); print(mod)
\* mod = relay.transform.FuseOps(fuse_opt_level=0)(mod); print(mod)
DirectCell(pass) ==
  /\ Len(stdout) < MaxExec
  /\ mod # NoModule
  /\ mod' = Invoke(pass, mod)
  /\ stdout' = Append(stdout, Printed(pass.name, mod'))
  /\ UNCHANGED <<seq, mod1, mod2, mod3, modc, step, cur>>

EliminateCell == DirectCell(EliminateCommonSubexpr)
FuseCell == DirectCell(FuseOps(0))

DirectCells ==
  \/ FoldCell
  \/ EliminateCell
  \/ FuseCell

(***************************************************************************)
(* C16.  Passes invoked directly on a module are applied unconditionally,  *)
(* one after another on the returned module: outside any build_config,     *)
(* FoldConstant()(mod) folds the constant subexpressions of the function,  *)
(* and EliminateCommonSubexpr()(mod) then eliminates the common expression *)
(* used by z and z1, so the two identical additions become one.            *)
(***************************************************************************)
C16_DirectPassesAreApplied ==
  \A p \in DOMAIN stdout :
    /\ stdout[p].text = "FoldConstant" =>
         /\ Folded(stdout[p])
         /\ \E c_data \in 0..MaxData : stdout[p].ir = FoldFrom(example(c_data), 1)
    /\ stdout[p].text = "EliminateCommonSubexpr" =>
         /\ stdout[p].ir = EliminateFrom(stdout[p - 1].ir, 1)
         /\ IdenticalAdditions(stdout[p].ir) = {}
         /\ Folded(stdout[p])
         /\ \E i \in Live(stdout[p].ir) :
              stdout[p].ir.nodes[i].op = "add" /\ stdout[p].ir.nodes[i].args = <<8, 1>>
    /\ stdout[p].text = "FuseOps" =>
         /\ stdout[p].ir = FuseFrom(stdout[p - 1].ir, 0, 1)
         /\ Fused(stdout[p])
    /\ p = Len(stdout) => stdout[p].ir = mod

C16_Witness ==
  /\ Len(stdout) >= 2
  /\ stdout[1].text = "FoldConstant"
  /\ stdout[2].text = "EliminateCommonSubexpr"
  /\ IdenticalAdditions(stdout[1].ir) # {}
  /\ IdenticalAdditions(stdout[2].ir) = {}

(***************************************************************************)
(* TFLite frontend notebook: extract(path).  A path is the sequence of its *)
(* characters.                                                             *)
(***************************************************************************)
\* str.endswith
endswith(s, suffix) ==
  /\ Len(suffix) <= Len(s)
  /\ SubSeq(s, Len(s) - Len(suffix) + 1, Len(s)) = suffix

\* os.path.dirname: the part before the last "/", trailing slashes
\* stripped unless it is made of slashes only
RECURSIVE rstrip_sep(_)
rstrip_sep(s) ==
  IF s # <<>> /\ s[Len(s)] = "/" THEN rstrip_sep(SubSeq(s, 1, Len(s) - 1)) ELSE s

dirname(p) ==
  LET slashes == {i \in DOMAIN p : p[i] = "/"}
      i == IF slashes = {} THEN 0 ELSE CHOOSE j \in slashes : \A k \in slashes : k <= j
      head == SubSeq(p, 1, i)
  IN  IF \A k \in DOMAIN head : head[k] = "/" THEN head ELSE rstrip_sep(head)

\* only paths ending with "tgz" are decompressed
decompressible_tgz_only(path) == endswith(path, <<"t", "g", "z">>)

\* if path.endswith("tgz") or path.endswith("gz")
decompressible(path) ==
  endswith(path, <<"t", "g", "z">>) \/ endswith(path, <<"g", "z">>)

NoError == <<>>
RuntimeError(message, path) == <<"RuntimeError", message>> \o path

\* def extract(path); the file at path is a readable tar archive
extract(path) ==
  IF decompressible(path)
    THEN [path |-> path, opened |-> <<path>>, extracted |-> <<dirname(path)>>,
          raised |-> NoError]
    ELSE [path |-> path, opened |-> <<>>, extracted |-> <<>>,
          raised |-> RuntimeError("Could not decompress the file: ", path)]

Dirs ==
  { <<>>, <<"/">>, <<"/", "d", "/">>, <<"d", "/", "g", "z", "/">>, <<"/", "/">> }

Names ==
  { <<"m">>, <<"m", ".", "t", "g", "z">>, <<"m", ".", "t", "a", "r", ".", "g", "z">>,
    <<"m", ".", "g", "z">>, <<"g", "z">>, <<"z">>, <<"m", ".", "z", "i", "p">>,
    <<"m", ".", "t", "a", "r">>, <<"m", ".", "g", "z", "i", "p">>,
    <<"m", ".", "G", "Z">>, <<"m", ".", "t", "g">>, <<"t", "g", "z", ".", "m">> }

Paths == { d \o f : d \in Dirs, f \in Names }

ExtractCall ==
  /\ Len(xlog) < MaxLen
  /\ \E path \in Paths : xlog' = Append(xlog, extract(path))

ExtractStart == xlog = <<>>
ExtractIdle == xlog = <<>>

ExternData == 0..(MaxData + 1)

Arrays(len) == [1..len -> ExternData]

\* the copy adds the source to what the destination holds
copyto_accumulate(src, dst) == [i \in DOMAIN dst |-> src[i] + dst[i]]

\* NDArray.copyto: the destination takes the values of the source
copyto(src, dst) == [i \in DOMAIN dst |-> src[i]]

\* f(a, b): the built function calls the registered packed function
CallPacked ==
  /\ xpc = "f"
  /\ xpc' = "my_tvm_addone"
  /\ UNCHANGED <<xa, xb, xtmp>>

\* x.asnumpy() + 1, made a new NDArray by tvm.nd.array
AsNumpyAddOne ==
  /\ xpc = "my_tvm_addone"
  /\ xtmp' = [i \in DOMAIN xa |-> xa[i] + 1]
  /\ xpc' = "copyto"
  /\ UNCHANGED <<xa, xb>>

\* .copyto(y)
CopyToOutput ==
  /\ xpc = "copyto"
  /\ xb' = copyto(xtmp, xb)
  /\ xpc' = "done"
  /\ UNCHANGED <<xa, xtmp>>

my_tvm_addone ==
  \/ CallPacked
  \/ AsNumpyAddOne
  \/ CopyToOutput

\* a and b are both made with size (n,)
ExternStart ==
  /\ \E len \in 0..MaxLen : xa \in Arrays(len) /\ xb \in Arrays(len)
  /\ xtmp = <<>>
  /\ xpc = "f"

ExternIdle ==
  /\ xa = <<>>
  /\ xb = <<>>
  /\ xtmp = <<>>
  /\ xpc = ""

(***************************************************************************)
(* C18.  The registered Python function completes its stage: after         *)
(* f(a, b), b[i] = a[i] + 1 for every i in [0, n), whatever values b held  *)
(* before the call, and the input a is not modified.                       *)
(***************************************************************************)
C18_ExternAddOne ==
  [][ /\ xa' = xa
      /\ xpc' = "done" =>
           /\ DOMAIN xb' = DOMAIN xa
           /\ \A i \in DOMAIN xa : xb'[i] = xa[i] + 1 ]_vars

C18_Witness ==
  /\ xpc = "done"
  /\ Len(xa) = 2
  /\ xa[1] # xa[2]
  /\ xb = <<xa[1] + 1, xa[2] + 1>>

(***************************************************************************)
(* Reduction notebook: the nest lowered after                              *)
(*   ko, ki = s[B].split(B.op.reduce_axis[0], factor=16)                   *)
(*   xo, xi = s[B].split(B.op.axis[0], factor=32)                          *)
(* with ri = i.outer, rk = i.inner, ko = k.outer, ki = k.inner.            *)
(***************************************************************************)
\* the column guard lets k.outer*16 + k.inner = m through
SplitColGuardInclusive(kout, kin) == (kout * KFactor) <= (m - kin)

\* if (likely(((k.outer*16) < (m - k.inner))))
SplitColGuard(kout, kin) == (kout * KFactor) < (m - kin)

\* A[(((((i.outer*32) + i.inner)*m) + (k.outer*16)) + k.inner)]
SplitAIndex(iout, iin, kout, kin) ==
  ((((iout * RowFactor) + iin) * m) + (kout * KFactor)) + kin

\* B[((i.outer*32) + i.inner)]
SplitBIndex(iout, iin) == (iout * RowFactor) + iin

\* a store to B[i], recorded when i is outside the buffer
SplitStore(i, value) ==
  IF i \in 0..(n - 1)
  THEN /\ B' = [B EXCEPT ![i] = value]
       /\ UNCHANGED woob
  ELSE /\ woob' = woob \cup {i}
       /\ UNCHANGED B

\* if (likely(((i.outer*32) < (n - i.inner)))) { B[...] = 0.000000f }
SplitRowInit ==
  /\ pc = "init"
  /\ ri < CeilDiv(n, RowFactor)
  /\ IF RowGuard(ri, rk)
     THEN /\ SplitStore(SplitBIndex(ri, rk), 0)
          /\ zi' = [zi EXCEPT ![SplitBIndex(ri, rk)] = @ + 1]
     ELSE UNCHANGED <<B, woob, zi>>
  /\ ko' = 0
  /\ ki' = 0
  /\ pc' = "acc"
  /\ UNCHANGED <<B_rf, acc, roob, ri, rk>>

\* one iteration of for (k.inner, 0, 16) inside for (k.outer, 0, ((m + 15)/16)):
\* if (row guard) { if (column guard) { B[...] = (B[...] + A[...]) } }
SplitAccumulate ==
  /\ pc = "acc"
  /\ ko < CeilDiv(m, KFactor)
  /\ IF RowGuard(ri, rk) /\ SplitColGuard(ko, ki)
     THEN /\ SplitStore(SplitBIndex(ri, rk),
                        B[SplitBIndex(ri, rk)] + LoadA(SplitAIndex(ri, rk, ko, ki)))
          /\ Touch(SplitAIndex(ri, rk, ko, ki))
     ELSE UNCHANGED <<B, woob, acc, roob>>
  /\ IF ki + 1 < KFactor
     THEN ki' = ki + 1 /\ UNCHANGED ko
     ELSE ki' = 0 /\ ko' = ko + 1
  /\ UNCHANGED <<B_rf, zi, pc, ri, rk>>

\* the k.outer loop is over: next i.inner, then next i.outer
SplitRowNext ==
  /\ pc = "acc"
  /\ ko >= CeilDiv(m, KFactor)
  /\ IF rk + 1 < RowFactor
     THEN rk' = rk + 1 /\ UNCHANGED ri
     ELSE rk' = 0 /\ ri' = ri + 1
  /\ pc' = "init"
  /\ UNCHANGED <<B, B_rf, zi, acc, roob, ko, ki, woob>>

SplitNest ==
  \/ SplitRowInit
  \/ SplitAccumulate
  \/ SplitRowNext

SplitDone == pc = "init" /\ ri >= CeilDiv(n, RowFactor)

\* the row counts tried for the nest: up to one full block of rows and a
\* partial one
SplitNestRows == {len \in SplitRows : len <= RowFactor + MaxDelta}

\* A and the prior content of B are filled from the largest seed, so that B
\* does not start as zeros
SplitStart ==
  /\ n \in SplitNestRows
  /\ m \in Cols
  /\ seed = MaxSeed
  /\ B = Filled(n)
  /\ B_rf = <<>>
  /\ zi = Zeros(n)
  /\ acc = Zeros(ASize)
  /\ roob = {}
  /\ pc = "init"
  /\ ri = 0
  /\ rk = 0
  /\ ko = 0
  /\ ki = 0
  /\ woob = {}

SplitIdle == woob = {}

(***************************************************************************)
(* C19.  The nest split by 16 on the reduction axis and by 32 on the row   *)
(* axis equals the unsplit reduction for every n, m >= 0, multiples of the *)
(* factors or not: for every i < n, B[i] = 0 is executed exactly once and  *)
(* before any accumulation into B[i], each pair (i, k) with i < n and      *)
(* k < m is accumulated exactly once, and no index with i >= n or k >= m   *)
(* is read or written.                                                     *)
(***************************************************************************)
C19_SplitNestIsRowSum ==
  /\ roob = {}
  /\ woob = {}
  /\ \A i \in 0..(n - 1) : zi[i] <= 1
  /\ \A x \in 0..(ASize - 1) : acc[x] <= zi[x \div m]
  /\ SplitDone =>
       /\ \A i \in 0..(n - 1) : zi[i] = 1 /\ B[i] = SumRow(i, 0)
       /\ \A x \in 0..(ASize - 1) : acc[x] = 1

\* a finished run with a partial last block of rows and of columns
C19_Witness ==
  /\ SplitDone
  /\ n = RowFactor + 1
  /\ m = KFactor + 1
  /\ seed = 1
  /\ B[n - 1] = SumRow(n - 1, 0)
  /\ acc[ASize - 1] = 1

(***************************************************************************)
(* The specifications.                                                     *)
(***************************************************************************)
NoInputs == n = 0 /\ m = 0 /\ seed = 0

SchedInit == SchedStart /\ NoInputs /\ AddIdle /\ RedIdle /\ GpuIdle /\ MmIdle /\ PassIdle /\ DbgIdle /\ CustIdle /\ IntrinIdle /\ HostIdle /\ AlignIdle /\ ExtractIdle /\ ExternIdle /\ SplitIdle
SchedNext == SchedCells /\ UNCHANGED <<inVars, addVars, redVars, gpuVars, mmVars, passVars, dbgVars, custVars, intrinVars, hostVars, alignVars, extractVars, externVars, splitVars>>
SpecSched == SchedInit /\ [][SchedNext]_vars

KernelInit == KernelStart /\ SchedIdle /\ RedIdle /\ GpuIdle /\ MmIdle /\ PassIdle /\ DbgIdle /\ CustIdle /\ IntrinIdle /\ HostIdle /\ AlignIdle /\ ExtractIdle /\ ExternIdle /\ SplitIdle
KernelNext == KernelThreads /\ UNCHANGED <<inVars, schedVars, redVars, gpuVars, mmVars, passVars, dbgVars, custVars, intrinVars, hostVars, alignVars, extractVars, externVars, splitVars>>
SpecKernel == KernelInit /\ [][KernelNext]_vars

NestInit == NestStart /\ SchedIdle /\ RedIdle /\ GpuIdle /\ MmIdle /\ PassIdle /\ DbgIdle /\ CustIdle /\ IntrinIdle /\ HostIdle /\ AlignIdle /\ ExtractIdle /\ ExternIdle /\ SplitIdle
NestNext == NestPrograms /\ UNCHANGED <<inVars, schedVars, redVars, gpuVars, mmVars, passVars, dbgVars, custVars, intrinVars, hostVars, alignVars, extractVars, externVars, splitVars>>
SpecNest == NestInit /\ [][NestNext]_vars

RowSumInit == RowSumStart /\ SchedIdle /\ AddIdle /\ GpuIdle /\ MmIdle /\ PassIdle /\ DbgIdle /\ CustIdle /\ IntrinIdle /\ HostIdle /\ AlignIdle /\ ExtractIdle /\ ExternIdle /\ SplitIdle
RowSumNext == RowSumProgram /\ UNCHANGED <<inVars, schedVars, addVars, gpuVars, mmVars, passVars, dbgVars, custVars, intrinVars, hostVars, alignVars, extractVars, externVars, splitVars>>
SpecRowSum == RowSumInit /\ [][RowSumNext]_vars

RfactorInit == RfactorStart /\ SchedIdle /\ AddIdle /\ GpuIdle /\ MmIdle /\ PassIdle /\ DbgIdle /\ CustIdle /\ IntrinIdle /\ HostIdle /\ AlignIdle /\ ExtractIdle /\ ExternIdle /\ SplitIdle
RfactorNext == RfactorProgram /\ UNCHANGED <<inVars, schedVars, addVars, gpuVars, mmVars, passVars, dbgVars, custVars, intrinVars, hostVars, alignVars, extractVars, externVars, splitVars>>
SpecRfactor == RfactorInit /\ [][RfactorNext]_vars

CrossThreadInit == CrossThreadStart /\ SchedIdle /\ AddIdle /\ MmIdle /\ PassIdle /\ DbgIdle /\ CustIdle /\ IntrinIdle /\ HostIdle /\ AlignIdle /\ ExtractIdle /\ ExternIdle /\ SplitIdle
CrossThreadNext == CrossThreadKernel /\ UNCHANGED <<inVars, schedVars, addVars, mmVars, passVars, dbgVars, custVars, intrinVars, hostVars, alignVars, extractVars, externVars, splitVars>>
SpecCrossThread == CrossThreadInit /\ [][CrossThreadNext]_vars

MatmulInit == MatmulStart /\ SchedIdle /\ AddIdle /\ RedIdle /\ GpuIdle /\ PassIdle /\ DbgIdle /\ CustIdle /\ IntrinIdle /\ HostIdle /\ AlignIdle /\ ExtractIdle /\ ExternIdle /\ SplitIdle
MatmulNext == MatmulElement /\ UNCHANGED <<schedVars, addVars, redVars, gpuVars, inVars, passVars, dbgVars, custVars, intrinVars, hostVars, alignVars, extractVars, externVars, splitVars>>
SpecMatmul == MatmulInit /\ [][MatmulNext]_vars

PassInit == PassStart /\ NoInputs /\ SchedIdle /\ AddIdle /\ RedIdle /\ GpuIdle /\ MmIdle /\ DbgIdle /\ CustIdle /\ IntrinIdle /\ HostIdle /\ AlignIdle /\ ExtractIdle /\ ExternIdle /\ SplitIdle
PassNext == PassCells /\ UNCHANGED <<inVars, schedVars, addVars, redVars, gpuVars, mmVars, dbgVars, custVars, intrinVars, hostVars, alignVars, extractVars, externVars, splitVars>>
SpecPasses == PassInit /\ [][PassNext]_vars


DebugInit == DebugStart /\ NoInputs /\ SchedIdle /\ AddIdle /\ RedIdle /\ GpuIdle /\ MmIdle /\ CustIdle /\ IntrinIdle /\ HostIdle /\ AlignIdle /\ ExtractIdle /\ ExternIdle /\ SplitIdle
DebugNext == DebugCell /\ UNCHANGED <<inVars, schedVars, addVars, redVars, gpuVars, mmVars, custVars, intrinVars, hostVars, alignVars, extractVars, externVars, splitVars>>
SpecDebug == DebugInit /\ [][DebugNext]_vars


CustomInit == CustomStart /\ NoInputs /\ SchedIdle /\ AddIdle /\ RedIdle /\ GpuIdle /\ MmIdle /\ PassIdle /\ DbgIdle /\ IntrinIdle /\ HostIdle /\ AlignIdle /\ ExtractIdle /\ ExternIdle /\ SplitIdle
CustomNext == CustomPipeline /\ UNCHANGED <<inVars, schedVars, addVars, redVars, gpuVars, mmVars, passVars, dbgVars, intrinVars, hostVars, alignVars, extractVars, externVars, splitVars>>
SpecCustom == CustomInit /\ [][CustomNext]_vars


IntrinInit == IntrinStart /\ NoInputs /\ SchedIdle /\ AddIdle /\ RedIdle /\ GpuIdle /\ MmIdle /\ PassIdle /\ DbgIdle /\ CustIdle /\ HostIdle /\ AlignIdle /\ ExtractIdle /\ ExternIdle /\ SplitIdle
IntrinNext == IntrinCells /\ UNCHANGED <<inVars, schedVars, addVars, redVars, gpuVars, mmVars, passVars, dbgVars, custVars, hostVars, alignVars, extractVars, externVars, splitVars>>
SpecIntrin == IntrinInit /\ [][IntrinNext]_vars


HostInit == HostStart /\ SchedIdle /\ RedIdle /\ GpuIdle /\ MmIdle /\ PassIdle /\ DbgIdle /\ CustIdle /\ IntrinIdle /\ AlignIdle /\ ExtractIdle /\ ExternIdle /\ SplitIdle
HostNext == HostProgram /\ UNCHANGED <<inVars, schedVars, redVars, gpuVars, mmVars, passVars, dbgVars, custVars, intrinVars, alignVars, extractVars, externVars, splitVars>>
SpecHost == HostInit /\ [][HostNext]_vars


AlignInit == AlignStart /\ NoInputs /\ SchedIdle /\ AddIdle /\ RedIdle /\ GpuIdle /\ PassIdle /\ DbgIdle /\ CustIdle /\ IntrinIdle /\ HostIdle /\ ExtractIdle /\ ExternIdle /\ SplitIdle
AlignNext == StorageAlign /\ UNCHANGED <<inVars, schedVars, addVars, redVars, gpuVars, mmVars, passVars, dbgVars, custVars, intrinVars, hostVars, extractVars, externVars, splitVars>>
SpecAlign == AlignInit /\ [][AlignNext]_vars


DirectInit == DebugStart /\ NoInputs /\ SchedIdle /\ AddIdle /\ RedIdle /\ GpuIdle /\ MmIdle /\ CustIdle /\ IntrinIdle /\ HostIdle /\ AlignIdle /\ ExtractIdle /\ ExternIdle /\ SplitIdle
DirectNext == DirectCells /\ UNCHANGED <<inVars, schedVars, addVars, redVars, gpuVars, mmVars, custVars, intrinVars, hostVars, alignVars, extractVars, externVars, splitVars>>
SpecDirect == DirectInit /\ [][DirectNext]_vars


ExtractInit == ExtractStart /\ NoInputs /\ SchedIdle /\ AddIdle /\ RedIdle /\ GpuIdle /\ MmIdle /\ PassIdle /\ DbgIdle /\ CustIdle /\ IntrinIdle /\ HostIdle /\ AlignIdle /\ ExternIdle /\ SplitIdle
ExtractNext == ExtractCall /\ UNCHANGED <<inVars, schedVars, addVars, redVars, gpuVars, mmVars, passVars, dbgVars, custVars, intrinVars, hostVars, alignVars, externVars, splitVars>>
SpecExtract == ExtractInit /\ [][ExtractNext]_vars


ExternInit == ExternStart /\ NoInputs /\ SchedIdle /\ AddIdle /\ RedIdle /\ GpuIdle /\ MmIdle /\ PassIdle /\ DbgIdle /\ CustIdle /\ IntrinIdle /\ HostIdle /\ AlignIdle /\ ExtractIdle /\ SplitIdle
ExternNext == my_tvm_addone /\ UNCHANGED <<inVars, schedVars, addVars, redVars, gpuVars, mmVars, passVars, dbgVars, custVars, intrinVars, hostVars, alignVars, extractVars, splitVars>>
SpecExtern == ExternInit /\ [][ExternNext]_vars


SplitInit == SplitStart /\ SchedIdle /\ AddIdle /\ GpuIdle /\ MmIdle /\ PassIdle /\ DbgIdle /\ CustIdle /\ IntrinIdle /\ HostIdle /\ AlignIdle /\ ExtractIdle /\ ExternIdle
SplitNext == SplitNest /\ UNCHANGED <<inVars, schedVars, addVars, gpuVars, mmVars, passVars, dbgVars, custVars, intrinVars, hostVars, alignVars, extractVars, externVars>>
SpecSplit == SplitInit /\ [][SplitNext]_vars

====
